---------------------------- MODULE Spec2Model ----------------------------
(***************************************************************************)
(* A model of the Microscopy Image Analyzer: the viewport transform and    *)
(* sequence navigation of ImageProcessor (src/src/core/image_processor.py),*)
(* the ROI editor ROIManager (src/src/core/roi_manager.py) and the         *)
(* controller MicroscopyImageAnalyzer (src/src/app.py) that wires them to  *)
(* the canvas.                                                             *)
(*                                                                         *)
(* Python floats are modelled by exact rationals <<n, d>> (d > 0, lowest   *)
(* terms), so "within floating-point tolerance" reads as equality.         *)
(* Python's None is the empty tuple <<>> and a present value v is <<v>>.   *)
(***************************************************************************)
EXTENDS Integers, Sequences, FiniteSets, TLC

(***************************************************************************)
(* Rational arithmetic (the float expressions of the source).              *)
(***************************************************************************)
Abs(n) == IF n < 0 THEN -n ELSE n

RECURSIVE GCD(_, _)
GCD(a, b) == IF b = 0 THEN a ELSE GCD(b, a % b)

\* the rational n/d in lowest terms with a positive denominator
Rat(n, d) ==
    LET s == IF d < 0 THEN -1 ELSE 1
        g == GCD(Abs(n), Abs(d))
    IN  <<(s * n) \div g, (s * d) \div g>>

\* the integer i as a rational
R(i) == <<i, 1>>

RAdd(a, b) == Rat(a[1] * b[2] + b[1] * a[2], a[2] * b[2])
RSub(a, b) == Rat(a[1] * b[2] - b[1] * a[2], a[2] * b[2])
RMul(a, b) == Rat(a[1] * b[1], a[2] * b[2])
RDiv(a, b) == Rat(a[1] * b[2], a[2] * b[1])
RLt(a, b) == a[1] * b[2] < b[1] * a[2]
RLe(a, b) == a[1] * b[2] <= b[1] * a[2]
RMin(a, b) == IF RLt(b, a) THEN b ELSE a
RMax(a, b) == IF RLt(a, b) THEN b ELSE a
RAbs(a) == <<Abs(a[1]), a[2]>>
RIsInt(a) == a[2] = 1

\* Python int(x): truncation toward zero
PyInt(a) == IF a[1] >= 0 THEN a[1] \div a[2] ELSE -((-a[1]) \div a[2])

\* Python 3 round(x): to the nearest integer, a tie to the even one
PyRound(a) ==
    LET fl  == a[1] \div a[2]
        rem == RSub(a, R(fl))
    IN  IF RLt(rem, <<1, 2>>) THEN fl
        ELSE IF RLt(<<1, 2>>, rem) THEN fl + 1
        ELSE IF fl % 2 = 0 THEN fl ELSE fl + 1

(***************************************************************************)
(* AppConfig (src/config/settings.py).                                     *)
(***************************************************************************)
CANVAS_WIDTH == 800
CANVAS_HEIGHT == 600
MAX_ZOOM == <<20, 1>>
MIN_ZOOM == <<1, 10>>
ZOOM_FACTOR == <<6, 5>>
MAX_IMAGE_SIZE == 4000
HANDLE_SIZE == 6
MIN_ROI_SIZE == 5

None == <<>>
Some(v) == <<v>>
IsNone(o) == o = <<>>
Get(o) == o[1]


(***************************************************************************)
(* The environment: the folders the user can pick and the image files in   *)
(* them.  A file name is a tuple of one-character strings, so that glob    *)
(* matching, splitext and the lexicographic sort act on its characters.    *)
(***************************************************************************)
Chars == <<" ", "(", ")", ".", "0", "1", "2", "3", "_", "a", "b", "c", "d",
           "e", "f", "g", "h", "i", "j", "m", "n", "o", "p", "r", "s", "t",
           "x">>

\* the position of a character in Python's character order
Ord(c) == CHOOSE i \in 1..Len(Chars) : Chars[i] = c

\* what os.listdir gives for each folder, in directory (unsorted) order
DirListing(dir) ==
    CASE dir = "A" -> << <<"c", ".", "j", "p", "g">>,
                         <<"n", "o", "t", "e", "s", ".", "t", "x", "t">>,
                         <<"a", ".", "p", "n", "g">>,
                         <<"b", ".", "t", "i", "f">> >>
      [] dir = "B" -> << <<"i", "2", ".", "p", "n", "g">>,
                         <<"i", "3", ".", "p", "n", "g">>,
                         <<"i", "1", ".", "p", "n", "g">> >>
      [] dir = "H" -> << <<"h", ".", "p", "n", "g">> >>
      [] dir = "S" -> << <<"s", ".", "p", "n", "g">> >>
      [] dir = "D" -> << <<"d", "2", ".", "p", "n", "g">>,
                         <<"d", "1", ".", "p", "n", "g">> >>
      [] dir = "E" -> << <<"n", "o", "t", "e", "s", ".", "t", "x", "t">> >>
      [] dir = "G" -> << <<"g", ".", "j", "p", "g">>,
                         <<".", "g", ".", "p", "n", "g">>,
                         <<"g", ".", "t", "i", "f", "f">>,
                         <<"g", ".", "p", "n", "g", ".", "t", "x", "t">>,
                         <<"g", ".", "g", "i", "f">>,
                         <<"g", ".", "t", "i", "f">>,
                         <<"g", ".", "b", "m", "p">>,
                         <<"g", ".", "j", "p", "e", "g">> >>
      [] OTHER -> << >>

Folders == {"A", "B", "D", "H", "S", "E"}

Path(dir, base) == [dir |-> dir, base |-> base]

\* a file Image.open cannot read
Corrupt(path) == path = Path("B", <<"i", "3", ".", "p", "n", "g">>)

\* the pixel size (width, height) of a readable image file
ImageSize(path) ==
    CASE path.dir = "A" /\ path.base[1] = "c" -> <<1600, 1200>>
      [] path.dir = "H" -> <<10000, 7500>>
      [] path.dir = "S" -> <<210, 210>>
      [] path.dir \in {"B", "D"} -> <<2000, 1500>>
      [] OTHER -> <<400, 300>>

SUPPORTED_FORMATS ==
    << <<"*", ".", "j", "p", "g">>, <<"*", ".", "j", "p", "e", "g">>,
       <<"*", ".", "p", "n", "g">>, <<"*", ".", "t", "i", "f">>,
       <<"*", ".", "t", "i", "f", "f">>, <<"*", ".", "b", "m", "p">>,
       <<"*", ".", "g", "i", "f">> >>

\* fnmatch of a "*<suffix>" pattern: the name ends with the suffix and is
\* not a hidden (dot-first) file
GlobMatch(base, pattern) ==
    LET suffix == Tail(pattern)
        k == Len(suffix)
    IN  /\ Len(base) >= k
        /\ base[1] # "."
        /\ SubSeq(base, Len(base) - k + 1, Len(base)) = suffix

\* glob.glob(os.path.join(folder_path, ext)), in directory order
Glob(dir, pattern) ==
    LET listing == DirListing(dir)
    IN  [i \in 1..Len(SelectSeq(listing, LAMBDA b : GlobMatch(b, pattern)))
            |-> Path(dir, SelectSeq(listing, LAMBDA b : GlobMatch(b, pattern))[i])]

RECURSIVE GlobAll(_, _)
GlobAll(dir, k) ==
    IF k = 0 THEN << >>
    ELSE GlobAll(dir, k - 1) \o Glob(dir, SUPPORTED_FORMATS[k])

\* Python's string order on the tuples of characters
RECURSIVE StrLess(_, _)
StrLess(a, b) ==
    IF Len(b) = 0 THEN FALSE
    ELSE IF Len(a) = 0 THEN TRUE
    ELSE IF a[1] # b[1] THEN Ord(a[1]) < Ord(b[1])
    ELSE StrLess(Tail(a), Tail(b))

\* paths of one folder share the folder prefix: their order is that of the names
PathLess(p, q) == StrLess(p.base, q.base)

(***************************************************************************)
(* ImageProcessor.  Each method is an operator from the object's fields    *)
(* (the record ip) to the fields after the call, with the return value     *)
(* where the callers use it: [ip |-> ..., ret |-> ...].                    *)
(***************************************************************************)
ImageProcessor_init ==
    [image_paths         |-> << >>,
     current_image_index |-> 0,
     original_image      |-> None,
     display_image       |-> None,
     tk_image            |-> FALSE,
     scale_factor        |-> R(1),
     default_scale       |-> None,
     canvas_offset       |-> [x |-> R(0), y |-> R(0)],
     cropped_images      |-> << >>,
     cell_coords         |-> [x |-> 0, y |-> 0],
     show_crosshair      |-> FALSE]

\* variant of load_images_from_folder that keeps the order of the globs
load_images_from_folder_unsorted(ip, folder_path) ==
    LET found  == GlobAll(folder_path, Len(SUPPORTED_FORMATS))
    IN  IF found = << >>
        THEN [ip |-> [ip EXCEPT !.image_paths = << >>], ret |-> FALSE]
        ELSE [ip |-> [ip EXCEPT !.image_paths = found,
                                !.current_image_index = 0],
              ret |-> TRUE]

load_images_from_folder(ip, folder_path) ==
    LET found  == GlobAll(folder_path, Len(SUPPORTED_FORMATS))
    IN  IF found = << >>
        THEN [ip |-> [ip EXCEPT !.image_paths = << >>], ret |-> FALSE]
        ELSE [ip |-> [ip EXCEPT !.image_paths = SortSeq(found, PathLess),
                                !.current_image_index = 0],
              ret |-> TRUE]

\* variant of reset_view that leaves the offset of the view
reset_view_keeps_offset(ip) ==
    IF IsNone(ip.display_image) \/ IsNone(ip.default_scale)
    THEN ip
    ELSE [ip EXCEPT !.scale_factor = Get(ip.default_scale)]

reset_view(ip) ==
    IF IsNone(ip.display_image) \/ IsNone(ip.default_scale)
    THEN ip
    ELSE [ip EXCEPT !.scale_factor = Get(ip.default_scale),
                    !.canvas_offset = [x |-> R(0), y |-> R(0)]]

\* min(canvas_width / img_w, canvas_height / img_h, 1.0)
FitScale(img_w, img_h, canvas_width, canvas_height) ==
    RMin(RMin(Rat(canvas_width, img_w), Rat(canvas_height, img_h)), R(1))

load_current_image(ip, canvas_width, canvas_height) ==
    IF ip.image_paths = << >>
    THEN [ip |-> ip, ret |-> FALSE]
    ELSE LET image_path == ip.image_paths[ip.current_image_index + 1]
         IN  IF Corrupt(image_path)
             THEN [ip |-> ip, ret |-> FALSE]
             ELSE LET size == ImageSize(image_path)
                      opened == [ip EXCEPT
                          !.original_image = Some(image_path),
                          !.display_image  = Some(image_path),
                          !.default_scale  =
                              Some(FitScale(size[1], size[2],
                                            canvas_width, canvas_height))]
                  IN  [ip |-> reset_view(opened), ret |-> TRUE]

get_resized_image(ip) ==
    IF IsNone(ip.display_image)
    THEN [ip |-> ip, ret |-> FALSE]
    ELSE LET size   == ImageSize(Get(ip.display_image))
             width  == size[1]
             height == size[2]
             over   == \/ PyInt(RMul(R(width), ip.scale_factor)) > MAX_IMAGE_SIZE
                       \/ PyInt(RMul(R(height), ip.scale_factor)) > MAX_IMAGE_SIZE
             scale  == IF over
                       THEN RMin(Rat(MAX_IMAGE_SIZE, width),
                                 Rat(MAX_IMAGE_SIZE, height))
                       ELSE ip.scale_factor
             new_width  == PyInt(RMul(R(width), scale))
             new_height == PyInt(RMul(R(height), scale))
             after  == [ip EXCEPT !.scale_factor = scale]
         IN  IF new_width <= 0 \/ new_height <= 0
             THEN [ip |-> after, ret |-> ip.tk_image]
             ELSE [ip |-> after, ret |-> TRUE]

\* mouse - (mouse - offset) * (scale_factor / old_scale)
\* variant of ZoomOffset that scales the offset itself, not its distance
\* from the mouse
ZoomOffset_about_origin(mouse, offset, scale_factor, old_scale) ==
    RMul(offset, RDiv(scale_factor, old_scale))

ZoomOffset(mouse, offset, scale_factor, old_scale) ==
    RSub(R(mouse), RMul(RSub(R(mouse), offset), RDiv(scale_factor, old_scale)))

zoom_in(ip, mouse_x, mouse_y) ==
    IF IsNone(ip.display_image)
    THEN ip
    ELSE LET old_scale == ip.scale_factor
             scale == RMin(RMul(ip.scale_factor, ZOOM_FACTOR), MAX_ZOOM)
         IN  [ip EXCEPT
                 !.scale_factor = scale,
                 !.canvas_offset =
                     [x |-> ZoomOffset(mouse_x, ip.canvas_offset.x, scale, old_scale),
                      y |-> ZoomOffset(mouse_y, ip.canvas_offset.y, scale, old_scale)]]

\* variant of zoom_out that divides the scale and leaves the offset
zoom_out_keeps_offset(ip, mouse_x, mouse_y) ==
    IF IsNone(ip.display_image)
    THEN ip
    ELSE LET scale == RMax(RDiv(ip.scale_factor, ZOOM_FACTOR), MIN_ZOOM)
         IN  IF ~IsNone(ip.default_scale) /\ RLt(scale, Get(ip.default_scale))
             THEN reset_view([ip EXCEPT !.scale_factor = Get(ip.default_scale)])
             ELSE [ip EXCEPT !.scale_factor = scale]

\* variant of zoom_out without the floor at default_scale
zoom_out_unfloored(ip, mouse_x, mouse_y) ==
    IF IsNone(ip.display_image)
    THEN ip
    ELSE LET old_scale == ip.scale_factor
             scale == RMax(RDiv(ip.scale_factor, ZOOM_FACTOR), MIN_ZOOM)
         IN  [ip EXCEPT
                 !.scale_factor = scale,
                 !.canvas_offset =
                     [x |-> ZoomOffset(mouse_x, ip.canvas_offset.x, scale, old_scale),
                      y |-> ZoomOffset(mouse_y, ip.canvas_offset.y, scale, old_scale)]]

zoom_out(ip, mouse_x, mouse_y) ==
    IF IsNone(ip.display_image)
    THEN ip
    ELSE LET old_scale == ip.scale_factor
             scale == RMax(RDiv(ip.scale_factor, ZOOM_FACTOR), MIN_ZOOM)
         IN  IF ~IsNone(ip.default_scale) /\ RLt(scale, Get(ip.default_scale))
             THEN reset_view([ip EXCEPT !.scale_factor = Get(ip.default_scale)])
             ELSE [ip EXCEPT
                     !.scale_factor = scale,
                     !.canvas_offset =
                         [x |-> ZoomOffset(mouse_x, ip.canvas_offset.x, scale, old_scale),
                          y |-> ZoomOffset(mouse_y, ip.canvas_offset.y, scale, old_scale)]]

set_cell_coordinates(ip, x, y) ==
    [ip EXCEPT !.cell_coords = [x |-> x, y |-> y], !.show_crosshair = TRUE]

toggle_crosshair(ip) == [ip EXCEPT !.show_crosshair = ~ip.show_crosshair]

center_on_coordinates(ip, x, y, canvas_width, canvas_height) ==
    IF IsNone(ip.original_image)
    THEN ip
    ELSE LET marked == set_cell_coordinates(ip, x, y)
         IN  [marked EXCEPT !.canvas_offset =
                 [x |-> RSub(R(canvas_width \div 2), RMul(R(x), ip.scale_factor)),
                  y |-> RSub(R(canvas_height \div 2), RMul(R(y), ip.scale_factor))]]

\* variant of screen_to_image_coords that forgets the offset of the view
screen_to_image_coords_no_offset(ip, screen_x, screen_y) ==
    <<PyInt(RDiv(R(screen_x), ip.scale_factor)),
      PyInt(RDiv(R(screen_y), ip.scale_factor))>>

\* screen (integers) to image coordinates, truncated by int()
screen_to_image_coords(ip, screen_x, screen_y) ==
    <<PyInt(RDiv(RSub(R(screen_x), ip.canvas_offset.x), ip.scale_factor)),
      PyInt(RDiv(RSub(R(screen_y), ip.canvas_offset.y), ip.scale_factor))>>

\* image (floats) to screen coordinates, truncated by int()
image_to_screen_coords(ip, img_x, img_y) ==
    <<PyInt(RAdd(RMul(img_x, ip.scale_factor), ip.canvas_offset.x)),
      PyInt(RAdd(RMul(img_y, ip.scale_factor), ip.canvas_offset.y))>>

\* variant of navigate_to_image that accepts every index
navigate_to_image_unchecked(ip, index) ==
    [ip |-> [ip EXCEPT !.current_image_index = index], ret |-> TRUE]

navigate_to_image(ip, index) ==
    IF ip.image_paths = << >> \/ index < 0 \/ index >= Len(ip.image_paths)
    THEN [ip |-> ip, ret |-> FALSE]
    ELSE [ip |-> [ip EXCEPT !.current_image_index = index], ret |-> TRUE]

\* variant of next_image that stops at the last image
next_image_stops(ip) ==
    IF ip.image_paths = << >>
    THEN [ip |-> ip, ret |-> FALSE]
    ELSE navigate_to_image(ip, ip.current_image_index + 1)

next_image(ip) ==
    IF ip.image_paths = << >>
    THEN [ip |-> ip, ret |-> FALSE]
    ELSE navigate_to_image(ip, (ip.current_image_index + 1) % Len(ip.image_paths))

previous_image(ip) ==
    IF ip.image_paths = << >>
    THEN [ip |-> ip, ret |-> FALSE]
    ELSE navigate_to_image(ip, (ip.current_image_index - 1) % Len(ip.image_paths))

\* PIL's Image.crop((x1, y1, x2, y2)) of the image at img_path: the box is
\* rounded to whole pixels (round half to even) and the result has the size
\* of the rounded box, whether or not it lies inside the image
Crop(img_path, x1, y1, x2, y2) ==
    LET left  == PyRound(x1)
        upper == PyRound(y1)
        right == PyRound(x2)
        lower == PyRound(y2)
    IN  [src  |-> img_path,
         box  |-> <<left, upper, right, lower>>,
         size |-> <<right - left, lower - upper>>]

\* the loop of crop_all_images over image_paths[k..]: the crops so far, or
\* failure at the first file that cannot be opened
RECURSIVE CropFrom(_, _, _, _)
CropFrom(paths, k, roi_coords, done) ==
    IF k > Len(paths) THEN [ok |-> TRUE, images |-> done]
    ELSE IF Corrupt(paths[k]) THEN [ok |-> FALSE, images |-> done]
    ELSE CropFrom(paths, k + 1, roi_coords,
                  Append(done, Crop(paths[k], roi_coords[1], roi_coords[2],
                                    roi_coords[3], roi_coords[4])))

\* variant of crop_all_images that keeps the crops made before the failure
crop_all_images_partial(ip, roi_coords) ==
    IF ip.image_paths = << >>
    THEN [ip |-> ip, ret |-> FALSE]
    ELSE LET loop == CropFrom(ip.image_paths, 1, roi_coords, << >>)
         IN  [ip |-> [ip EXCEPT !.cropped_images = loop.images], ret |-> loop.ok]

crop_all_images(ip, roi_coords) ==
    IF ip.image_paths = << >>
    THEN [ip |-> ip, ret |-> FALSE]
    ELSE LET loop == CropFrom(ip.image_paths, 1, roi_coords, << >>)
         IN  IF loop.ok
             THEN [ip |-> [ip EXCEPT !.cropped_images = loop.images], ret |-> TRUE]
             ELSE [ip |-> [ip EXCEPT !.cropped_images = << >>], ret |-> FALSE]

\* variant of reset_all that leaves the crops
reset_all_keeps_crops(ip) == reset_view(ip)

reset_all(ip) == reset_view([ip EXCEPT !.cropped_images = << >>])

(***************************************************************************)
(* The Tk canvas.  Items are created in one order only (the image, the     *)
(* crosshair, the ROI rectangle, the four handles), so the display list is *)
(* a record of optional items, bottom to top:                              *)
(*   image     <<x, y, width, height>>  the bounding box of the image item *)
(*   crosshair <<x, y>>                 two lines and the centre oval      *)
(*   roi       <<x1, y1, x2, y2>>       the dashed outline, tag "roi"      *)
(*   handles   <<x1, y1, x2, y2>>       squares at the corners, tags       *)
(*                                      nw (x1,y1) ne (x2,y1) sw (x1,y2)   *)
(*                                      se (x2,y2)                         *)
(* An item id is "live" (the item is on the canvas) or "stale" (its item   *)
(* was deleted; Tk ignores commands on it and never reuses the id).        *)
(***************************************************************************)
Canvas_init == [image |-> None, crosshair |-> None, roi |-> None, handles |-> None]

\* Tk draws an image item at its position rounded half away from zero
TkRound(r) ==
    IF r[1] >= 0 THEN (2 * r[1] + r[2]) \div (2 * r[2])
    ELSE -((2 * (-r[1]) + r[2]) \div (2 * r[2]))

\* A distance max(0, sqrt(sq) - r), in half pixels.
Dist(sq, r) == [sq |-> sq, r |-> r]

\* 2 * c * sqrt(sq) <= t, for c > 0 and t >= 0
SqrtLe(c, sq, t) ==
    LET q == t \div (2 * c)
    IN  IF q >= 46340 THEN TRUE
        ELSE IF sq <= q * q THEN TRUE
        ELSE IF sq >= (q + 1) * (q + 1) THEN FALSE
        ELSE 4 * c * c * sq <= t * t

\* 2 * c * sqrt(sq) < t, for c > 0 and t > 0
SqrtLt(c, sq, t) ==
    LET q == t \div (2 * c)
    IN  IF q >= 46340 THEN TRUE
        ELSE IF sq < q * q THEN TRUE
        ELSE IF sq >= (q + 1) * (q + 1) THEN FALSE
        ELSE 4 * c * c * sq < t * t

DistLe(d1, d2) ==
    IF d1.sq <= d1.r * d1.r THEN TRUE
    ELSE IF d2.sq <= d2.r * d2.r THEN FALSE
    ELSE LET c == d2.r - d1.r
         IN  IF c = 0 THEN d1.sq <= d2.sq
             ELSE IF c > 0
             THEN LET t == d2.sq - d1.sq - c * c
                  IN  t >= 0 /\ SqrtLe(c, d1.sq, t)
             ELSE LET t == d1.sq - d2.sq - c * c
                  IN  t <= 0 \/ ~SqrtLt(-c, d2.sq, t)

\* how far x lies outside [lo, hi]
Outside(x, lo, hi) == IF x < lo THEN lo - x ELSE IF x > hi THEN x - hi ELSE 0

\* Tk's distance from the point to a filled box (an image, a thick line, a handle)
\* with corners in half pixels
FilledDist(px, py, x1, y1, x2, y2) ==
    LET dx == Outside(2 * px, x1, x2)
        dy == Outside(2 * py, y1, y2)
    IN  Dist(dx * dx + dy * dy, 0)

\* Tk's RectToPoint for an unfilled rectangle with an outline `width` pixels wide
OutlineDist(px, py, rect, width) ==
    LET xa == IF rect[1] <= rect[3] THEN rect[1] ELSE rect[3]
        xb == IF rect[1] <= rect[3] THEN rect[3] ELSE rect[1]
        ya == IF rect[2] <= rect[4] THEN rect[2] ELSE rect[4]
        yb == IF rect[2] <= rect[4] THEN rect[4] ELSE rect[2]
        x1 == 2 * xa - width
        y1 == 2 * ya - width
        x2 == 2 * xb + width
        y2 == 2 * yb + width
        qx == 2 * px
        qy == 2 * py
    IN  IF qx >= x1 /\ qx < x2 /\ qy >= y1 /\ qy < y2
        THEN LET xd == IF x2 - qx < qx - x1 THEN x2 - qx ELSE qx - x1
                 yd == IF y2 - qy < qy - y1 THEN y2 - qy ELSE qy - y1
                 m  == IF yd < xd THEN yd ELSE xd
             IN  Dist(m * m, 2 * width)
        ELSE FilledDist(px, py, x1, y1, x2, y2)

\* a handle: a filled square of HANDLE_SIZE around (x, y), outline 1 pixel wide
HandleDist(px, py, x, y) ==
    FilledDist(px, py, 2 * (x - HANDLE_SIZE) - 1, 2 * (y - HANDLE_SIZE) - 1,
                       2 * (x + HANDLE_SIZE) + 1, 2 * (y + HANDLE_SIZE) + 1)

\* the display list, bottom to top: the tag handle_mouse_press looks for
\* ("" for an item with none of them) and the distance of the point to it
DisplayList(canvas, px, py, size) ==
    (IF IsNone(canvas.image) THEN << >>
     ELSE LET im == Get(canvas.image)
          IN  << [tag |-> "", dist |->
                    FilledDist(px, py, 2 * im[1], 2 * im[2],
                               2 * (im[1] + im[3]), 2 * (im[2] + im[4]))] >>)
    \o
    (IF IsNone(canvas.crosshair) THEN << >>
     ELSE LET ch == Get(canvas.crosshair)
          IN  << [tag |-> "", dist |->
                    FilledDist(px, py, 2 * ch[1] - 2, 0, 2 * ch[1] + 2, 2 * size[2])],
                 [tag |-> "", dist |->
                    FilledDist(px, py, 0, 2 * ch[2] - 2, 2 * size[1], 2 * ch[2] + 2)],
                 [tag |-> "", dist |->
                    Dist((2 * px - 2 * ch[1]) * (2 * px - 2 * ch[1])
                         + (2 * py - 2 * ch[2]) * (2 * py - 2 * ch[2]), 8)] >>)
    \o
    (IF IsNone(canvas.roi) THEN << >>
     ELSE << [tag |-> "roi", dist |-> OutlineDist(px, py, Get(canvas.roi), 2)] >>)
    \o
    (IF IsNone(canvas.handles) THEN << >>
     ELSE LET h == Get(canvas.handles)
          IN  << [tag |-> "nw", dist |-> HandleDist(px, py, h[1], h[2])],
                 [tag |-> "ne", dist |-> HandleDist(px, py, h[3], h[2])],
                 [tag |-> "sw", dist |-> HandleDist(px, py, h[1], h[4])],
                 [tag |-> "se", dist |-> HandleDist(px, py, h[3], h[4])] >>)

\* canvas.find_closest(x, y): the closest item, the topmost of the closest
RECURSIVE Closest(_, _, _)
Closest(items, k, best) ==
    IF k > Len(items) THEN best
    ELSE Closest(items, k + 1,
                 IF DistLe(items[k].dist, items[best].dist) THEN k ELSE best)

\* the tag of the item find_closest returns; None on an empty canvas, where
\* find_closest(...)[0] raises IndexError
find_closest(canvas, px, py, size) ==
    LET items == DisplayList(canvas, px, py, size)
    IN  IF items = << >> THEN None ELSE Some(items[Closest(items, 1, 1)].tag)

(***************************************************************************)
(* ROIManager.  Its methods read the ImageProcessor, draw on the canvas    *)
(* and call the notification sink, so they act on the record               *)
(*   st = [ip, rm, canvas, ui]                                             *)
(* of the objects they touch.  rm holds the manager's own fields; the ids  *)
(* in resize_handles are the handles item of the canvas.  ui is what the   *)
(* window shows: the ROI dimension label, whether the ROI-changed callback *)
(* ran in the current handler, and the dialogs the handler raised.         *)
(***************************************************************************)
ROIManager_init ==
    [roi_coords    |-> None,
     roi_rect      |-> "None",
     is_drawing    |-> FALSE,
     is_dragging   |-> FALSE,
     active_handle |-> None,
     drag_start    |-> [x |-> 0, y |-> 0]]

UI_init == [dimensions |-> <<0, 0>>, notified |-> FALSE, dialogs |-> << >>,
            export_folder |-> ""]

\* variant of get_roi_coordinates that returns the stored corners as they are
get_roi_coordinates_stored(rm) ==
    IF IsNone(rm.roi_coords) THEN None
    ELSE LET c == Get(rm.roi_coords)
         IN  Some(<<c.start_x, c.start_y, c.end_x, c.end_y>>)

get_roi_coordinates(rm) ==
    IF IsNone(rm.roi_coords) THEN None
    ELSE LET c == Get(rm.roi_coords)
         IN  Some(<<RMin(c.start_x, c.end_x), RMin(c.start_y, c.end_y),
                    RMax(c.start_x, c.end_x), RMax(c.start_y, c.end_y)>>)

get_roi_dimensions(rm) ==
    LET coords == get_roi_coordinates(rm)
    IN  IF IsNone(coords) THEN <<0, 0>>
        ELSE <<PyInt(RSub(Get(coords)[3], Get(coords)[1])),
               PyInt(RSub(Get(coords)[4], Get(coords)[2]))>>

has_roi(rm) == ~IsNone(rm.roi_coords)

\* MicroscopyImageAnalyzer._on_roi_changed, the callback of the manager
on_roi_changed(st) ==
    [st EXCEPT !.ui.dimensions = get_roi_dimensions(st.rm),
               !.ui.notified = TRUE]

notify_roi_changed(st) == on_roi_changed(st)

\* the screen corners <<x1, y1, x2, y2>> of the stored corners
ScreenCorners(st) ==
    LET c == Get(st.rm.roi_coords)
        p == image_to_screen_coords(st.ip, c.start_x, c.start_y)
        q == image_to_screen_coords(st.ip, c.end_x, c.end_y)
    IN  <<p[1], p[2], q[1], q[2]>>

draw_roi_rectangle(st) ==
    IF IsNone(st.rm.roi_coords) THEN st
    ELSE IF st.rm.roi_rect = "live"
         THEN [st EXCEPT !.canvas.roi = Some(ScreenCorners(st))]
    ELSE IF st.rm.roi_rect = "stale"
         THEN st
    ELSE [st EXCEPT !.canvas.roi = Some(ScreenCorners(st)),
                    !.rm.roi_rect = "live"]

clear_resize_handles(st) == [st EXCEPT !.canvas.handles = None]

draw_resize_handles(st) ==
    IF IsNone(st.rm.roi_coords) THEN clear_resize_handles(st)
    ELSE [st EXCEPT !.canvas.handles = Some(ScreenCorners(st))]

\* variant of clear_roi that leaves the gesture flags as they are
clear_roi_keeps_gesture(st) ==
    on_roi_changed(
        [st EXCEPT !.canvas.roi = None,
                   !.canvas.handles = None,
                   !.rm.roi_rect = "None",
                   !.rm.roi_coords = None,
                   !.rm.is_drawing = FALSE])

clear_roi(st) ==
    on_roi_changed(
        [st EXCEPT !.canvas.roi = None,
                   !.canvas.handles = None,
                   !.rm.roi_rect = "None",
                   !.rm.roi_coords = None,
                   !.rm.is_drawing = FALSE,
                   !.rm.is_dragging = FALSE,
                   !.rm.active_handle = None])

start_drawing_mode(st) == [clear_roi(st) EXCEPT !.rm.is_drawing = TRUE]

start_roi_drawing(st, screen_x, screen_y) ==
    IF ~st.rm.is_drawing THEN st
    ELSE LET img == screen_to_image_coords(st.ip, screen_x, screen_y)
         IN  draw_roi_rectangle(
                 [st EXCEPT
                     !.rm.roi_coords = Some([start_x |-> R(img[1]),
                                             start_y |-> R(img[2]),
                                             end_x   |-> R(img[1]),
                                             end_y   |-> R(img[2])]),
                     !.rm.drag_start = [x |-> screen_x, y |-> screen_y]])

update_roi_drawing(st, screen_x, screen_y) ==
    IF ~st.rm.is_drawing \/ IsNone(st.rm.roi_coords) THEN st
    ELSE LET img == screen_to_image_coords(st.ip, screen_x, screen_y)
             c   == Get(st.rm.roi_coords)
         IN  notify_roi_changed(draw_roi_rectangle(
                 [st EXCEPT !.rm.roi_coords =
                     Some([c EXCEPT !.end_x = R(img[1]), !.end_y = R(img[2])])]))

\* variant of finish_roi_drawing that also discards a draft of exactly the
\* minimum size
finish_roi_drawing_inclusive(st) ==
    IF IsNone(st.rm.roi_coords) THEN st
    ELSE LET c      == Get(st.rm.roi_coords)
             width  == RAbs(RSub(c.end_x, c.start_x))
             height == RAbs(RSub(c.end_y, c.start_y))
         IN  IF RLe(width, R(MIN_ROI_SIZE)) \/ RLe(height, R(MIN_ROI_SIZE))
             THEN clear_roi(st)
             ELSE notify_roi_changed(draw_resize_handles(
                      [st EXCEPT !.rm.is_drawing = FALSE]))

finish_roi_drawing(st) ==
    IF IsNone(st.rm.roi_coords) THEN st
    ELSE LET c      == Get(st.rm.roi_coords)
             width  == RAbs(RSub(c.end_x, c.start_x))
             height == RAbs(RSub(c.end_y, c.start_y))
         IN  IF RLt(width, R(MIN_ROI_SIZE)) \/ RLt(height, R(MIN_ROI_SIZE))
             THEN clear_roi(st)
             ELSE notify_roi_changed(draw_resize_handles(
                      [st EXCEPT !.rm.is_drawing = FALSE]))

\* the image-space delta of a drag to (x, y): the screen delta over the scale
DragDelta(st, x, y) ==
    [dx |-> RDiv(R(x - st.rm.drag_start.x), st.ip.scale_factor),
     dy |-> RDiv(R(y - st.rm.drag_start.y), st.ip.scale_factor)]

\* variant of _resize_roi's corner update that gives the delta to both corners
ResizedCoords_both(c, handle, d) ==
    [start_x |-> RAdd(c.start_x, d.dx), start_y |-> RAdd(c.start_y, d.dy),
     end_x   |-> RAdd(c.end_x, d.dx),   end_y   |-> RAdd(c.end_y, d.dy)]

\* the corners after the active handle took the delta
ResizedCoords(c, handle, d) ==
    IF handle = "nw"
    THEN [c EXCEPT !.start_x = RAdd(c.start_x, d.dx), !.start_y = RAdd(c.start_y, d.dy)]
    ELSE IF handle = "ne"
    THEN [c EXCEPT !.end_x = RAdd(c.end_x, d.dx), !.start_y = RAdd(c.start_y, d.dy)]
    ELSE IF handle = "sw"
    THEN [c EXCEPT !.start_x = RAdd(c.start_x, d.dx), !.end_y = RAdd(c.end_y, d.dy)]
    ELSE IF handle = "se"
    THEN [c EXCEPT !.end_x = RAdd(c.end_x, d.dx), !.end_y = RAdd(c.end_y, d.dy)]
    ELSE c

\* variant of _resize_roi that discards the crops of the ROI it changes
resize_roi_invalidates(st, x, y) ==
    IF IsNone(st.rm.roi_coords) \/ IsNone(st.rm.active_handle) THEN st
    ELSE notify_roi_changed(draw_resize_handles(draw_roi_rectangle(
             [st EXCEPT
                 !.ip.cropped_images = << >>,
                 !.rm.roi_coords = Some(ResizedCoords(Get(st.rm.roi_coords),
                                                      Get(st.rm.active_handle),
                                                      DragDelta(st, x, y))),
                 !.rm.drag_start = [x |-> x, y |-> y]])))


resize_roi(st, x, y) ==
    IF IsNone(st.rm.roi_coords) \/ IsNone(st.rm.active_handle) THEN st
    ELSE notify_roi_changed(draw_resize_handles(draw_roi_rectangle(
             [st EXCEPT
                 !.rm.roi_coords = Some(ResizedCoords(Get(st.rm.roi_coords),
                                                      Get(st.rm.active_handle),
                                                      DragDelta(st, x, y))),
                 !.rm.drag_start = [x |-> x, y |-> y]])))

\* variant of _move_roi's corner update that keeps the start corner on the image
MovedCoords_clamped(c, d) ==
    [start_x |-> RMax(R(0), RAdd(c.start_x, d.dx)),
     start_y |-> RMax(R(0), RAdd(c.start_y, d.dy)),
     end_x   |-> RAdd(c.end_x, d.dx),
     end_y   |-> RAdd(c.end_y, d.dy)]

MovedCoords(c, d) ==
    [start_x |-> RAdd(c.start_x, d.dx), start_y |-> RAdd(c.start_y, d.dy),
     end_x   |-> RAdd(c.end_x, d.dx),   end_y   |-> RAdd(c.end_y, d.dy)]

move_roi(st, x, y) ==
    IF IsNone(st.rm.roi_coords) THEN st
    ELSE draw_resize_handles(draw_roi_rectangle(
             [st EXCEPT
                 !.rm.roi_coords = Some(MovedCoords(Get(st.rm.roi_coords),
                                                    DragDelta(st, x, y))),
                 !.rm.drag_start = [x |-> x, y |-> y]]))

HandleTags == {"nw", "ne", "sw", "se"}

\* size: the canvas size, which bounds the crosshair lines
handle_mouse_press(st, x, y, size) ==
    LET item == find_closest(st.canvas, x, y, size)
    IN  IF IsNone(item) THEN st
        ELSE IF Get(item) \in HandleTags
        THEN [st EXCEPT !.rm.active_handle = item,
                        !.rm.drag_start = [x |-> x, y |-> y]]
        ELSE IF Get(item) = "roi" /\ ~IsNone(st.rm.roi_coords)
        THEN [st EXCEPT !.rm.is_dragging = TRUE,
                        !.rm.drag_start = [x |-> x, y |-> y]]
        ELSE IF st.rm.is_drawing
        THEN start_roi_drawing(st, x, y)
        ELSE st

handle_mouse_drag(st, x, y) ==
    IF st.rm.is_drawing /\ ~IsNone(st.rm.roi_coords)
    THEN update_roi_drawing(st, x, y)
    ELSE IF ~IsNone(st.rm.active_handle)
    THEN resize_roi(st, x, y)
    ELSE IF st.rm.is_dragging
    THEN move_roi(st, x, y)
    ELSE st

handle_mouse_release(st) ==
    IF st.rm.is_drawing
    THEN finish_roi_drawing(st)
    ELSE IF ~IsNone(st.rm.active_handle)
    THEN [st EXCEPT !.rm.active_handle = None]
    ELSE IF st.rm.is_dragging
    THEN [st EXCEPT !.rm.is_dragging = FALSE]
    ELSE st

\* variant of update_display that drops an ROI whose rectangle is gone
update_display_drops(st) ==
    IF IsNone(st.rm.roi_coords) THEN st
    ELSE IF st.rm.roi_rect = "stale"
    THEN [st EXCEPT !.rm.roi_coords = None]
    ELSE IF st.rm.is_drawing
    THEN draw_roi_rectangle(st)
    ELSE draw_resize_handles(draw_roi_rectangle(st))

update_display(st) ==
    IF IsNone(st.rm.roi_coords) THEN st
    ELSE IF st.rm.is_drawing
    THEN draw_roi_rectangle(st)
    ELSE draw_resize_handles(draw_roi_rectangle(st))

(***************************************************************************)
(* MicroscopyImageAnalyzer: the state of the application and its handlers. *)
(*   ip, rm   the ImageProcessor and the ROIManager                        *)
(*   canvas   the items on the Tk canvas                                   *)
(*   ui       the ROI dimension label, and what the current handler did    *)
(*            to the user: callback run, dialogs raised                    *)
(*   app      the controller's pan_mode and pan_start                      *)
(*   mouse    the pointer button, "up" or "down" (Tk delivers B1-Motion    *)
(*            and ButtonRelease-1 only after a ButtonPress-1)              *)
(*   disk     the files below the export folders: a function from the      *)
(*            paths that exist to their contents                           *)
(*   io       history: the writes the current operation asked of the       *)
(*            imaging libraries, in order                                  *)
(*   last     history: the operation that led to this state                *)
(*   trail    history of the method-level specifications: the most recent  *)
(*            calls with the fields before each                            *)
(***************************************************************************)
VARIABLES ip, rm, canvas, ui, app, mouse, disk, io, last, trail

vars == <<ip, rm, canvas, ui, app, mouse, disk, io, last, trail>>

App_init == [pan_mode |-> FALSE, pan_start |-> [x |-> 0, y |-> 0]]

\* no file has been exported yet
Disk_init == {}

\* what an operation found when it began
Before(p) ==
    [crops |-> Len(p.cropped_images), scale_factor |-> p.scale_factor,
     canvas_offset |-> p.canvas_offset]

NoOp == [op |-> "init", x |-> 0, y |-> 0, ret |-> FALSE,
         before |-> Before(ImageProcessor_init)]

Init ==
    /\ ip = ImageProcessor_init
    /\ rm = ROIManager_init
    /\ canvas = Canvas_init
    /\ ui = UI_init
    /\ app = App_init
    /\ mouse = "up"
    /\ disk = Disk_init
    /\ io = << >>
    /\ last = NoOp
    /\ trail = << >>

\* the objects at the start of a handler: nothing shown to the user yet
Begin ==
    [ip |-> ip, rm |-> rm, canvas |-> canvas,
     ui |-> [ui EXCEPT !.notified = FALSE, !.dialogs = << >>],
     disk |-> disk, io |-> << >>]

\* the handler ends in st
Becomes(st) ==
    /\ ip' = st.ip
    /\ rm' = st.rm
    /\ canvas' = st.canvas
    /\ ui' = st.ui
    /\ disk' = st.disk
    /\ io' = st.io

Show(st, dialog) == [st EXCEPT !.ui.dialogs = Append(st.ui.dialogs, dialog)]

\* the record of an operation: its name, arguments and result, and what it
\* found when it began
Op(name, x, y, ret) ==
    [op |-> name, x |-> x, y |-> y, ret |-> ret, before |-> Before(ip)]

draw_crosshair(st) ==
    IF ~st.ip.show_crosshair \/ IsNone(st.ip.original_image)
    THEN [st EXCEPT !.canvas.crosshair = None]
    ELSE [st EXCEPT !.canvas.crosshair =
             Some(image_to_screen_coords(st.ip, R(st.ip.cell_coords.x),
                                                R(st.ip.cell_coords.y)))]

\* _update_image_display: the refresh after every change of the view
update_image_display(st) ==
    LET resized == get_resized_image(st.ip)
        size    == ImageSize(Get(st.ip.display_image))
        shown   == [st EXCEPT
                      !.ip = [resized.ip EXCEPT !.tk_image = TRUE],
                      !.rm.roi_rect = IF st.rm.roi_rect = "None" THEN "None" ELSE "stale",
                      !.canvas =
                          [image |-> Some(<<TkRound(resized.ip.canvas_offset.x),
                                            TkRound(resized.ip.canvas_offset.y),
                                            PyInt(RMul(R(size[1]), resized.ip.scale_factor)),
                                            PyInt(RMul(R(size[2]), resized.ip.scale_factor))>>),
                           crosshair |-> None, roi |-> None, handles |-> None]]
    IN  IF resized.ret
        THEN update_display(draw_crosshair(shown))
        ELSE [st EXCEPT !.ip = resized.ip]

\* re-center on the cell if coordinates are set (navigation and reset view)
Recenter(st, size) ==
    IF st.ip.cell_coords.x # 0 \/ st.ip.cell_coords.y # 0
    THEN [st EXCEPT !.ip = center_on_coordinates(st.ip, st.ip.cell_coords.x,
                                                 st.ip.cell_coords.y, size[1], size[2])]
    ELSE st

OnInputFolderChanged(folder_path, size) ==
    LET st     == Begin
        found  == load_images_from_folder(st.ip, folder_path)
        loaded == load_current_image(found.ip, size[1], size[2])
    IN  /\ Becomes(IF ~found.ret
                   THEN Show([st EXCEPT !.ip = found.ip], "warning: no images")
                   ELSE IF ~loaded.ret
                   THEN Show([st EXCEPT !.ip = loaded.ip], "error: load")
                   ELSE update_image_display([st EXCEPT !.ip = loaded.ip]))
        /\ last' = Op("input_folder", 0, 0, found.ret /\ loaded.ret)
        /\ UNCHANGED <<app, mouse, trail>>

OnLocateCell(x, y, size) ==
    LET st == Begin
        centered == [st EXCEPT !.ip = center_on_coordinates(st.ip, x, y, size[1], size[2])]
    IN  /\ Becomes(update_image_display(centered))
        /\ last' = Op("locate_cell", x, y, TRUE)
        /\ UNCHANGED <<app, mouse, trail>>

OnToggleCrosshair ==
    LET st == Begin
    IN  /\ Becomes(update_image_display([st EXCEPT !.ip = toggle_crosshair(st.ip)]))
        /\ last' = Op("toggle_crosshair", 0, 0, TRUE)
        /\ UNCHANGED <<app, mouse, trail>>

OnDrawRoi ==
    LET st == Begin
    IN  /\ Becomes(IF IsNone(st.ip.original_image)
                   THEN Show(st, "warning: no image")
                   ELSE Show(start_drawing_mode(st), "info: draw"))
        /\ last' = Op("draw_roi", 0, 0, ~IsNone(st.ip.original_image))
        /\ UNCHANGED <<app, mouse, trail>>

OnCropAll ==
    LET st == Begin
        cropped == crop_all_images(st.ip, Get(get_roi_coordinates(st.rm)))
    IN  /\ Becomes(IF ~has_roi(st.rm)
                   THEN Show(st, "warning: no roi")
                   ELSE IF st.ip.image_paths = << >>
                   THEN Show(st, "warning: no images")
                   ELSE IF cropped.ret
                   THEN Show([st EXCEPT !.ip = cropped.ip], "info: cropped")
                   ELSE Show([st EXCEPT !.ip = cropped.ip], "error: crop"))
        /\ last' = Op("crop_all", 0, 0,
                      has_roi(st.rm) /\ st.ip.image_paths # << >> /\ cropped.ret)
        /\ UNCHANGED <<app, mouse, trail>>

OnMousePress(x, y, size) ==
    LET st == Begin
    IN  /\ mouse = "up"
        /\ mouse' = "down"
        /\ IF app.pan_mode
           THEN /\ app' = [app EXCEPT !.pan_start = [x |-> x, y |-> y]]
                /\ Becomes(st)
           ELSE /\ app' = app
                /\ Becomes(handle_mouse_press(st, x, y, size))
        /\ last' = Op("mouse_press", 0, 0, TRUE)
        /\ UNCHANGED trail

OnMouseDrag(x, y) ==
    LET st == Begin
        panned == [st EXCEPT !.ip.canvas_offset =
                      [x |-> RAdd(st.ip.canvas_offset.x, R(x - app.pan_start.x)),
                       y |-> RAdd(st.ip.canvas_offset.y, R(y - app.pan_start.y))]]
    IN  /\ mouse = "down"
        /\ IF app.pan_mode
           THEN /\ app' = [app EXCEPT !.pan_start = [x |-> x, y |-> y]]
                /\ Becomes(update_image_display(panned))
           ELSE /\ app' = app
                /\ Becomes(handle_mouse_drag(st, x, y))
        /\ last' = Op("mouse_drag", 0, 0, TRUE)
        /\ UNCHANGED <<mouse, trail>>

OnMouseRelease ==
    /\ mouse = "down"
    /\ mouse' = "up"
    /\ Becomes(handle_mouse_release(Begin))
    /\ last' = Op("mouse_release", 0, 0, TRUE)
    /\ UNCHANGED <<app, trail>>

\* The model's rationals stay exact while their parts are small: a zoom is
\* explored only from a view whose scale and offset have parts up to MaxPart.
MaxPart == 1000

Small(r) == Abs(r[1]) <= MaxPart /\ r[2] <= MaxPart

SmallView(p) ==
    /\ Small(p.scale_factor)
    /\ Small(p.canvas_offset.x)
    /\ Small(p.canvas_offset.y)

ZoomInAtMouse(mouse_x, mouse_y) ==
    LET st == Begin
    IN  Becomes(update_image_display([st EXCEPT !.ip = zoom_in(st.ip, mouse_x, mouse_y)]))

ZoomOutAtMouse(mouse_x, mouse_y) ==
    LET st == Begin
    IN  Becomes(update_image_display([st EXCEPT !.ip = zoom_out(st.ip, mouse_x, mouse_y)]))

\* event.delta > 0 zooms in, anything else zooms out
OnMouseWheel(delta, x, y) ==
    /\ SmallView(ip)
    /\ IF delta > 0 THEN ZoomInAtMouse(x, y) ELSE ZoomOutAtMouse(x, y)
    /\ last' = Op(IF delta > 0 THEN "zoom_in" ELSE "zoom_out", x, y, TRUE)
    /\ UNCHANGED <<app, mouse, trail>>

OnZoomIn(size) ==
    /\ SmallView(ip)
    /\ ZoomInAtMouse(size[1] \div 2, size[2] \div 2)
    /\ last' = Op("zoom_in", size[1] \div 2, size[2] \div 2, TRUE)
    /\ UNCHANGED <<app, mouse, trail>>

OnZoomOut(size) ==
    /\ SmallView(ip)
    /\ ZoomOutAtMouse(size[1] \div 2, size[2] \div 2)
    /\ last' = Op("zoom_out", size[1] \div 2, size[2] \div 2, TRUE)
    /\ UNCHANGED <<app, mouse, trail>>

\* the body shared by _on_previous_image and _on_next_image
Navigate(moved, size) ==
    LET st     == Begin
        loaded == load_current_image(moved.ip, size[1], size[2])
        shown  == update_image_display([st EXCEPT !.ip = loaded.ip])
    IN  Becomes(IF ~moved.ret THEN st
                ELSE IF ~loaded.ret THEN Show([st EXCEPT !.ip = loaded.ip], "error: load")
                ELSE IF shown.ip.cell_coords.x # 0 \/ shown.ip.cell_coords.y # 0
                THEN update_image_display(Recenter(shown, size))
                ELSE shown)

OnPreviousImage(size) ==
    /\ Navigate(previous_image(ip), size)
    /\ last' = Op("previous", 0, 0, previous_image(ip).ret)
    /\ UNCHANGED <<app, mouse, trail>>

OnNextImage(size) ==
    /\ Navigate(next_image(ip), size)
    /\ last' = Op("next", 0, 0, next_image(ip).ret)
    /\ UNCHANGED <<app, mouse, trail>>

OnResetView(size) ==
    LET st == Begin
    IN  /\ Becomes(update_image_display(
               Recenter([st EXCEPT !.ip = reset_view(st.ip)], size)))
        /\ last' = Op("reset_view", 0, 0, TRUE)
        /\ UNCHANGED <<app, mouse, trail>>

OnTogglePan ==
    /\ app' = [app EXCEPT !.pan_mode = ~app.pan_mode]
    /\ Becomes(Begin)
    /\ last' = Op("toggle_pan", 0, 0, TRUE)
    /\ UNCHANGED <<mouse, trail>>

OnResetEverything ==
    LET st      == Begin
        cleared == clear_roi(st)
        reset   == [cleared EXCEPT
                      !.ip = reset_view(reset_all(
                                 [cleared.ip EXCEPT !.cell_coords = [x |-> 0, y |-> 0],
                                                    !.show_crosshair = FALSE]))]
        shown   == update_image_display(reset)
    IN  /\ Becomes(Show([shown EXCEPT !.ui.dimensions = <<0, 0>>], "info: reset"))
        /\ last' = Op("reset_everything", 0, 0, TRUE)
        /\ UNCHANGED <<app, mouse, trail>>

\* "Delete ROI" of the context menu, which opens only while an ROI exists
OnDeleteRoi ==
    /\ has_roi(rm)
    /\ Becomes(clear_roi(Begin))
    /\ last' = Op("delete_roi", 0, 0, TRUE)
    /\ UNCHANGED <<app, mouse, trail>>


(***************************************************************************)
(* Export.  The disk is a set of files [path, content]; a content is       *)
(*   [kind |-> "image", of |-> <<crop>>]    a saved crop or frame          *)
(*   [kind |-> "gif" or "mp4", of |-> crops] an animation of the crops     *)
(*   [kind |-> "partial", of |-> << >>]      what a failed write left      *)
(* A write asked of PIL or imageio is answered by the environment: "ok",   *)
(* "refused" (nothing touched) or "partial" (an unfinished file is left).  *)
(* Each write is recorded in io with the path, whether the path existed    *)
(* when the operation began, and the answer.                               *)
(***************************************************************************)
Exists(files, path) == \E f \in files : f.path = path

Content(files, path) == (CHOOSE f \in files : f.path = path).content

Partial == [kind |-> "partial", of |-> << >>]

\* one write call: the file after it, and its record in io
Write(st, call, path, content, answer) ==
    LET others == {f \in st.disk : f.path # path}
        after  == CASE answer = "ok" -> others \cup {[path |-> path, content |-> content]}
                    [] answer = "partial" -> others \cup {[path |-> path, content |-> Partial]}
                    [] OTHER -> st.disk
    IN  [st EXCEPT !.disk = after,
                   !.io = Append(st.io, [call |-> call, path |-> path,
                                         existed |-> Exists(disk, path),
                                         answer |-> answer])]

\* variant of splitext that starts the extension at the first dot that has
\* another character before it
splitext_first_dot(base) ==
    LET dots == {i \in 2..Len(base) : base[i] = "." /\ \E j \in 1..(i - 1) : base[j] # "."}
        dot  == IF dots = {} THEN 0 ELSE CHOOSE i \in dots : \A j \in dots : i <= j
    IN  IF dot > 0
        THEN <<SubSeq(base, 1, dot - 1), SubSeq(base, dot, Len(base))>>
        ELSE <<base, << >> >>

\* os.path.splitext of a file name: the extension starts at the last dot,
\* unless only dots come before it
splitext(base) ==
    LET dots == {i \in 1..Len(base) : base[i] = "."}
        dot  == IF dots = {} THEN 0 ELSE CHOOSE i \in dots : \A j \in dots : j <= i
    IN  IF dot > 0 /\ \E i \in 1..(dot - 1) : base[i] # "."
        THEN <<SubSeq(base, 1, dot - 1), SubSeq(base, dot, Len(base))>>
        ELSE <<base, << >> >>

\* str(n) and f"{n:04d}" of a natural number
RECURSIVE str(_)
str(n) ==
    LET digit == <<"0", "1", "2", "3", "4", "5", "6", "7", "8", "9">>[(n % 10) + 1]
    IN  IF n < 10 THEN <<digit>> ELSE str(n \div 10) \o <<digit>>

RECURSIVE ZeroPad(_, _)
ZeroPad(digits, width) ==
    IF Len(digits) >= width THEN digits ELSE ZeroPad(<<"0">> \o digits, width)

\* the loop of _get_unique_filename from counter on
RECURSIVE UniqueFrom(_, _, _)
UniqueFrom(files, filepath, counter) ==
    LET parts    == splitext(filepath.base)
        new_path == Path(filepath.dir,
                         parts[1] \o <<" ", "(">> \o str(counter) \o <<")">> \o parts[2])
    IN  IF ~Exists(files, new_path) THEN new_path
        ELSE UniqueFrom(files, filepath, counter + 1)

\* variant of _get_unique_filename that starts the counter at 2
get_unique_filename_from_two(files, filepath) ==
    IF ~Exists(files, filepath) THEN filepath ELSE UniqueFrom(files, filepath, 2)


get_unique_filename(files, filepath) ==
    IF ~Exists(files, filepath) THEN filepath ELSE UniqueFrom(files, filepath, 1)

\* os.path.basename: what follows the last "/" of the path
basename(file_path) ==
    LET seps == {i \in 1..Len(file_path) : file_path[i] = "/"}
        sep  == IF seps = {} THEN 0 ELSE CHOOSE i \in seps : \A j \in seps : j <= i
    IN  SubSeq(file_path, sep + 1, Len(file_path))

\* utils.file_utils.get_file_info
get_file_info(file_path) == splitext(basename(file_path))

\* variant of the output path of a crop that avoids the files on the disk
CroppedPath_unique(export_folder, image_path) ==
    LET parts == splitext(image_path.base)
    IN  get_unique_filename(disk,
            Path(export_folder,
                 parts[1] \o <<"_", "c", "r", "o", "p", "p", "e", "d">> \o parts[2]))

\* f"{name}_cropped{ext}" in export_folder
CroppedPath(export_folder, image_path) ==
    LET parts == splitext(image_path.base)
    IN  Path(export_folder,
             parts[1] \o <<"_", "c", "r", "o", "p", "p", "e", "d">> \o parts[2])

\* variant of the loop that goes on after a failed write
RECURSIVE SaveFrom_goes_on(_, _, _, _)
SaveFrom_goes_on(st, export_folder, i, fault) ==
    IF i > Len(st.ip.cropped_images) THEN [st |-> st, ok |-> fault.at = 0]
    ELSE IF i > Len(st.ip.image_paths) THEN [st |-> st, ok |-> FALSE]
    ELSE LET output_path == CroppedPath(export_folder, st.ip.image_paths[i])
             img == [kind |-> "image", of |-> <<st.ip.cropped_images[i]>>]
         IN  SaveFrom_goes_on(Write(st, "save", output_path, img,
                                    IF fault.at = i THEN fault.how ELSE "ok"),
                              export_folder, i + 1, fault)

\* the loop of save_cropped_images from the i-th crop on.  fault.at names
\* the write the environment fails (0: none) and fault.how its answer;
\* image_paths[i] beyond the end of the list raises IndexError.
RECURSIVE SaveFrom(_, _, _, _)
SaveFrom(st, export_folder, i, fault) ==
    IF i > Len(st.ip.cropped_images) THEN [st |-> st, ok |-> TRUE]
    ELSE IF i > Len(st.ip.image_paths) THEN [st |-> st, ok |-> FALSE]
    ELSE LET output_path == CroppedPath(export_folder, st.ip.image_paths[i])
             img == [kind |-> "image", of |-> <<st.ip.cropped_images[i]>>]
         IN  IF fault.at = i
             THEN [st |-> Write(st, "save", output_path, img, fault.how), ok |-> FALSE]
             ELSE SaveFrom(Write(st, "save", output_path, img, "ok"),
                           export_folder, i + 1, fault)

save_cropped_images(st, export_folder, fault) ==
    IF st.ip.cropped_images = << >> THEN [st |-> st, ret |-> FALSE]
    ELSE IF fault.how = "makedirs"
    THEN [st |-> Show(st, "error: save"), ret |-> FALSE]
    ELSE LET loop == SaveFrom(st, export_folder, 1, fault)
         IN  IF loop.ok THEN [st |-> loop.st, ret |-> TRUE]
             ELSE [st |-> Show(loop.st, "error: save"), ret |-> FALSE]

\* variant of create_gif that does not look at the crops first
create_gif_unguarded(st, export_folder, fault) ==
    IF fault.how = "makedirs"
    THEN [st |-> Show(st, "error: gif"), ret |-> FALSE]
    ELSE LET output_path == Path(export_folder, <<"o", "u", "t", "p", "u", "t", ".", "g", "i", "f">>)
             gif   == [kind |-> "gif", of |-> st.ip.cropped_images]
             saved == Write(st, "mimsave", output_path, gif,
                            IF fault.at = 1 THEN fault.how ELSE "ok")
         IN  IF fault.at = 1 THEN [st |-> Show(saved, "error: gif"), ret |-> FALSE]
             ELSE [st |-> saved, ret |-> TRUE]

create_gif(st, export_folder, fault) ==
    IF st.ip.cropped_images = << >> THEN [st |-> st, ret |-> FALSE]
    ELSE IF fault.how = "makedirs"
    THEN [st |-> Show(st, "error: gif"), ret |-> FALSE]
    ELSE LET output_path == Path(export_folder, <<"o", "u", "t", "p", "u", "t", ".", "g", "i", "f">>)
             gif   == [kind |-> "gif", of |-> st.ip.cropped_images]
             saved == Write(st, "mimsave", output_path, gif,
                            IF fault.at = 1 THEN fault.how ELSE "ok")
         IN  IF fault.at = 1 THEN [st |-> Show(saved, "error: gif"), ret |-> FALSE]
             ELSE [st |-> saved, ret |-> TRUE]

\* the frame checks of create_animation: the first crop without pixels, or 0
EmptyFrame(images) ==
    LET empty == {i \in 1..Len(images) : images[i].size[1] = 0 \/ images[i].size[2] = 0}
    IN  IF empty = {} THEN 0 ELSE CHOOSE i \in empty : \A j \in empty : i <= j

\* the third method of the video export, from the i-th frame on:
\* temp_frames/frame_NNNN.png for every frame
RECURSIVE FramesFrom(_, _, _, _)
FramesFrom(st, temp_dir, i, fault) ==
    IF i > Len(st.ip.cropped_images) THEN [st |-> st, ok |-> TRUE]
    ELSE LET frame_path == Path(temp_dir, <<"f", "r", "a", "m", "e", "_">>
                                          \o ZeroPad(str(i - 1), 4)
                                          \o <<".", "p", "n", "g">>)
             frame == [kind |-> "image", of |-> <<st.ip.cropped_images[i]>>]
         IN  IF fault.at = i
             THEN [st |-> Write(st, "frame", frame_path, frame, fault.how), ok |-> FALSE]
             ELSE FramesFrom(Write(st, "frame", frame_path, frame, "ok"),
                             temp_dir, i + 1, fault)

\* variant of the video export that gives up when imageio's MP4 writer fails
encode_video_no_fallback(st, output_path, temp_dir, env) ==
    LET mp4   == [kind |-> "mp4", of |-> st.ip.cropped_images]
        first == Write(st, "mimsave mp4", output_path, mp4, env.primary)
    IN  IF env.primary = "ok" THEN [st |-> first, ret |-> TRUE]
        ELSE [st |-> Show(first, "error: video"), ret |-> FALSE]

\* the video branch of create_animation: imageio.mimsave(format='MP4'), then
\* imageio.get_writer(format='FFMPEG'), then the frames as still images
encode_video(st, output_path, temp_dir, env) ==
    LET mp4    == [kind |-> "mp4", of |-> st.ip.cropped_images]
        first  == Write(st, "mimsave mp4", output_path, mp4, env.primary)
        second == Write(first, "ffmpeg writer", output_path, mp4, env.secondary)
        third  == FramesFrom(second, temp_dir, 1, env.stills)
    IN  IF env.primary = "ok" THEN [st |-> first, ret |-> TRUE]
        ELSE IF env.secondary = "ok" THEN [st |-> second, ret |-> TRUE]
        ELSE IF env.stills.how = "makedirs"
        THEN [st |-> Show(second, "error: video"), ret |-> FALSE]
        ELSE IF third.ok THEN [st |-> Show(third.st, "info: frames saved"), ret |-> TRUE]
        ELSE [st |-> Show(third.st, "error: video"), ret |-> FALSE]

create_animation(st, export_folder, settings, env) ==
    IF st.ip.cropped_images = << >>
    THEN [st |-> Show(st, "error: no cropped images"), ret |-> FALSE]
    ELSE IF ~env.makedirs THEN [st |-> Show(st, "error: animation"), ret |-> FALSE]
    ELSE LET extension   == IF settings.export_type = "gif"
                            THEN <<".", "g", "i", "f">> ELSE <<".", "m", "p", "4">>
             base_path   == Path(export_folder, settings.filename \o extension)
             output_path == get_unique_filename(st.disk, base_path)
             gif         == [kind |-> "gif", of |-> st.ip.cropped_images]
             saved       == Write(st, "mimsave gif", output_path, gif, env.primary)
         IN  IF EmptyFrame(st.ip.cropped_images) # 0
             THEN [st |-> Show(st, "error: empty image"), ret |-> FALSE]
             ELSE IF settings.export_type = "gif"
             THEN IF env.primary = "ok" THEN [st |-> saved, ret |-> TRUE]
                  ELSE [st |-> Show(saved, "error: animation"), ret |-> FALSE]
             ELSE IF settings.export_type = "video"
             THEN encode_video(st, output_path, export_folder \o "/temp_frames", env)
             ELSE [st |-> st, ret |-> TRUE]

\* PathControls._browse_export: the folder is stored in the entry, the
\* handler of the application does nothing
OnExportFolderChanged(folder_path) ==
    /\ Becomes([Begin EXCEPT !.ui.export_folder = folder_path])
    /\ last' = Op("export_folder", 0, 0, TRUE)
    /\ UNCHANGED <<app, mouse, trail>>

OnSaveImages(fault) ==
    LET st    == Begin
        saved == save_cropped_images(st, st.ui.export_folder, fault)
    IN  /\ Becomes(IF st.ui.export_folder = "" THEN Show(st, "warning: no folder")
                   ELSE IF saved.ret THEN Show(saved.st, "info: saved")
                   ELSE saved.st)
        /\ last' = Op("save_images", 0, 0, st.ui.export_folder # "" /\ saved.ret)
        /\ UNCHANGED <<app, mouse, trail>>

OnMakeGif(fault) ==
    LET st    == Begin
        saved == create_gif(st, st.ui.export_folder, fault)
    IN  /\ Becomes(IF st.ui.export_folder = "" THEN Show(st, "warning: no folder")
                   ELSE IF saved.ret THEN Show(saved.st, "info: gif saved")
                   ELSE saved.st)
        /\ last' = Op("make_gif", 0, 0, st.ui.export_folder # "" /\ saved.ret)
        /\ UNCHANGED <<app, mouse, trail>>

\* create_animation called on the ImageProcessor (no handler of the
\* application calls it)
CallCreateAnimation(export_folder, settings, env) ==
    LET made == create_animation(Begin, export_folder, settings, env)
    IN  /\ Becomes(made.st)
        /\ last' = Op("create_animation " \o settings.export_type, 0, 0, made.ret)
        /\ UNCHANGED <<app, mouse, trail>>


(***************************************************************************)
(* The application: every handler, from the constructed state.  The user's *)
(* pointer reaches the points of Points; rationals are kept small by       *)
(* exploring a zoom only from a small view and a drag only to a view and   *)
(* an ROI inside the window.                                               *)
(***************************************************************************)
Size == <<CANVAS_WIDTH, CANVAS_HEIGHT>>

MinCoord == 15
MaxCoord == 40
MaxPan == 100

InWindow(r, low, high) == RLe(R(low), r) /\ RLe(r, R(high))

\* the ROI corners lie between low and high, and the offset of the view is
\* at most MaxPan
Bounded(low, high) ==
    /\ IsNone(rm.roi_coords) \/
         /\ InWindow(Get(rm.roi_coords).start_x, low, high)
         /\ InWindow(Get(rm.roi_coords).start_y, low, high)
         /\ InWindow(Get(rm.roi_coords).end_x, low, high)
         /\ InWindow(Get(rm.roi_coords).end_y, low, high)
    /\ InWindow(ip.canvas_offset.x, 0 - MaxPan, MaxPan)
    /\ InWindow(ip.canvas_offset.y, 0 - MaxPan, MaxPan)

\* the pointer: press, motion with the button down, release
Pointer(points, low, high) ==
    \/ \E p \in points : OnMousePress(p[1], p[2], Size)
    \/ \E p \in points : OnMouseDrag(p[1], p[2]) /\ Bounded(low, high)'
    \/ OnMouseRelease

(***************************************************************************)
(* SpecRoi: drawing and editing the region of interest on the images of    *)
(* folder A, shown at scale 1.                                             *)
(***************************************************************************)
RoiPoints == {<<20, 20>>, <<25, 25>>, <<30, 20>>, <<40, 40>>}

RoiNext ==
    \/ OnInputFolderChanged("A", Size)
    \/ OnDrawRoi
    \/ Pointer(RoiPoints, MinCoord, MaxCoord)
    \/ OnDeleteRoi

SpecRoi == Init /\ [][RoiNext]_vars


(***************************************************************************)
(* Properties of the region of interest, under SpecRoi.                    *)
(***************************************************************************)
Least(a, b) == IF RLe(a, b) THEN a ELSE b

Most(a, b) == IF RLe(a, b) THEN b ELSE a

\* getCoordinates is the least and the greatest of the stored corners
Normalized ==
    has_roi(rm) =>
        LET k == Get(rm.roi_coords)
            c == Get(get_roi_coordinates(rm))
        IN  /\ RLe(c[1], c[3])
            /\ RLe(c[2], c[4])
            /\ c = <<Least(k.start_x, k.end_x), Least(k.start_y, k.end_y),
                     Most(k.start_x, k.end_x), Most(k.start_y, k.end_y)>>

\* a drag of a handle leaves the two stored corners the handle does not own
\* as they were, whatever their order has become; a drag of a draft leaves
\* the start corner
DragKeepsCorners ==
    (last'.op = "mouse_drag" /\ ~app.pan_mode /\ has_roi(rm)) =>
        LET k == Get(rm.roi_coords)
            n == Get(rm'.roi_coords)
            handle == rm.active_handle
        IN  /\ has_roi(rm')
            /\ rm.is_drawing => (n.start_x = k.start_x /\ n.start_y = k.start_y)
            /\ (~rm.is_drawing /\ handle \in {Some("nw"), Some("sw")}) => n.end_x = k.end_x
            /\ (~rm.is_drawing /\ handle \in {Some("ne"), Some("se")}) => n.start_x = k.start_x
            /\ (~rm.is_drawing /\ handle \in {Some("nw"), Some("ne")}) => n.end_y = k.end_y
            /\ (~rm.is_drawing /\ handle \in {Some("sw"), Some("se")}) => n.start_y = k.start_y

\* C3: getCoordinates always returns x1 <= x2 and y1 <= y2, the least and
\* the greatest of the stored corners, also after a handle was dragged past
\* the opposite corner; the stored corners are not re-ordered during a drag.
C3_NormalizedCoordinates == []Normalized /\ [][DragKeepsCorners]_vars

\* a handle has just been dragged past the opposite corner: the stored
\* corners are inverted and getCoordinates is not
C3_Witness ==
    /\ last.op = "mouse_drag"
    /\ ~IsNone(rm.active_handle)
    /\ has_roi(rm)
    /\ RLt(Get(rm.roi_coords).end_x, Get(rm.roi_coords).start_x)
    /\ RLt(Get(get_roi_coordinates(rm))[1], Get(get_roi_coordinates(rm))[3])

\* the pointer goes up over a draft
FinishStep == last'.op = "mouse_release" /\ rm.is_drawing /\ has_roi(rm)

DraftWidth == RAbs(RSub(Get(rm.roi_coords).end_x, Get(rm.roi_coords).start_x))

DraftHeight == RAbs(RSub(Get(rm.roi_coords).end_y, Get(rm.roi_coords).start_y))

\* C4: when the pointer goes up over a draft whose width or height is below
\* MIN_ROI_SIZE the draft is discarded and the manager is idle with no ROI;
\* a draft of at least MIN_ROI_SIZE in both dimensions, exactly 5 included,
\* is kept as it is and the manager leaves the drawing state.
C4_MinimumRoiSize ==
    [][FinishStep =>
          IF RLt(DraftWidth, R(5)) \/ RLt(DraftHeight, R(5))
          THEN /\ ~has_roi(rm')
               /\ IsNone(get_roi_coordinates(rm'))
               /\ ~rm'.is_drawing /\ ~rm'.is_dragging /\ IsNone(rm'.active_handle)
               /\ canvas'.roi = None /\ canvas'.handles = None
          ELSE /\ rm'.roi_coords = rm.roi_coords
               /\ ~rm'.is_drawing
               /\ canvas'.handles # None]_vars

\* a draft of exactly MIN_ROI_SIZE by MIN_ROI_SIZE has just been kept: only
\* the end of a drawing notifies on a release
C4_Witness ==
    /\ last.op = "mouse_release"
    /\ ui.notified
    /\ has_roi(rm)
    /\ ~rm.is_drawing
    /\ DraftWidth = R(MIN_ROI_SIZE)
    /\ DraftHeight = R(MIN_ROI_SIZE)


(***************************************************************************)
(* SpecCrop: cropping the sequence.  Folder D holds two readable images    *)
(* and folder B two readable ones and one that cannot be opened, all of    *)
(* 2000 x 1500 pixels and so shown at scale 0.4.  The ROI is drawn and     *)
(* edited while the result set is empty.                                   *)
(***************************************************************************)
CropPoints == {<<4, 4>>, <<13, 4>>, <<22, 4>>, <<22, 22>>}

MinCrop == 9
MaxCrop == 78

CropNext ==
    \/ \E folder_path \in {"D", "B"} : OnInputFolderChanged(folder_path, Size)
    \/ OnDrawRoi
    \/ ip.cropped_images = << >> /\ Pointer(CropPoints, MinCrop, MaxCrop)
    \/ OnCropAll

SpecCrop == Init /\ [][CropNext]_vars

\* Crop All runs with an ROI on a loaded sequence
CropStep == last'.op = "crop_all" /\ has_roi(rm) /\ ip.image_paths # << >>

Unreadable == \E i \in 1..Len(ip.image_paths) : Corrupt(ip.image_paths[i])

\* C1: if any source image fails to open during cropAll, the batch is
\* aborted, the failure is reported, and the crop result set is empty
\* afterwards, whatever it held before.
C1_CropFailureEmptiesResults ==
    [][(CropStep /\ Unreadable) =>
          /\ ip'.cropped_images = << >>
          /\ ~last'.ret
          /\ ui'.dialogs = <<"error: crop">>]_vars

\* a crop has just failed on a result set that held crops
C1_Witness ==
    /\ last.op = "crop_all"
    /\ ~last.ret
    /\ last.before.crops > 0
    /\ ui.dialogs = <<"error: crop">>
    /\ ip.cropped_images = << >>

\* C2: a successful cropAll on a sequence of N images with ROI
\* (x1, y1, x2, y2) produces exactly N cropped images, in sequence order,
\* each of size (x2 - x1) by (y2 - y1).
C2_CropSizes ==
    [][(CropStep /\ last'.ret) =>
          LET c == Get(get_roi_coordinates(rm))
              crops == ip'.cropped_images
          IN  /\ Len(crops) = Len(ip.image_paths)
              /\ \A i \in 1..Len(crops) :
                    /\ crops[i].src = ip.image_paths[i]
                    /\ R(crops[i].size[1]) = RSub(c[3], c[1])
                    /\ R(crops[i].size[2]) = RSub(c[4], c[2])]_vars

\* a crop has just succeeded with an ROI whose corners are whole pixels
C2_Witness ==
    /\ last.op = "crop_all"
    /\ last.ret
    /\ Len(ip.cropped_images) = 2
    /\ \A i \in 1..4 : RIsInt(Get(get_roi_coordinates(rm))[i])


(***************************************************************************)
(* SpecZoom: the zoom methods called on their own, on views the            *)
(* application reaches.  Loaded(folder) is the view after the folder was   *)
(* chosen.  DeepView is the view of the 210 x 210 image after seventeen    *)
(* Zoom In steps, where the refresh caps the scale at                      *)
(* MAX_IMAGE_SIZE / 210 = 400/21, and Locate Cell on (21, 21).             *)
(***************************************************************************)
MaxTrail == 2

Remember(t) == IF Len(t) > MaxTrail THEN Tail(t) ELSE t

\* a method call on the ImageProcessor alone
Call(name, x, y, ret, after) ==
    /\ ip' = after
    /\ trail' = Remember(Append(trail, [op |-> name, x |-> x, y |-> y, ip |-> ip]))
    /\ last' = Op(name, x, y, ret)
    /\ UNCHANGED <<rm, canvas, ui, app, mouse, disk, io>>

CallZoomIn(mouse_x, mouse_y) ==
    /\ SmallView(ip)
    /\ Call("zoom_in", mouse_x, mouse_y, TRUE, zoom_in(ip, mouse_x, mouse_y))

CallZoomOut(mouse_x, mouse_y) ==
    /\ SmallView(ip)
    /\ Call("zoom_out", mouse_x, mouse_y, TRUE, zoom_out(ip, mouse_x, mouse_y))

Loaded(folder_path) ==
    load_current_image(load_images_from_folder(ImageProcessor_init, folder_path).ip,
                       CANVAS_WIDTH, CANVAS_HEIGHT).ip

DeepView ==
    center_on_coordinates(
        get_resized_image([Loaded("S") EXCEPT !.scale_factor = MAX_ZOOM]).ip,
        21, 21, CANVAS_WIDTH, CANVAS_HEIGHT)

ZoomViews == {ImageProcessor_init, Loaded("A"), Loaded("H"), Loaded("S"), DeepView}

Anchors == {<<400, 300>>, <<100, 50>>}

ZoomInit ==
    /\ ip \in ZoomViews
    /\ rm = ROIManager_init
    /\ canvas = Canvas_init
    /\ ui = UI_init
    /\ app = App_init
    /\ mouse = "up"
    /\ disk = Disk_init
    /\ io = << >>
    /\ last = NoOp
    /\ trail = << >>

ZoomNext ==
    \/ \E a \in Anchors : CallZoomIn(a[1], a[2])
    \/ \E a \in Anchors : CallZoomOut(a[1], a[2])

SpecZoom == ZoomInit /\ [][ZoomNext]_vars


(***************************************************************************)
(* Properties of the zoom methods and the conversions, under SpecZoom.     *)
(***************************************************************************)
\* a zoom method runs on a loaded image
ZoomStep == last'.op \in {"zoom_in", "zoom_out"} /\ ~IsNone(ip.display_image)

\* the scale a zoom-out from scale s asks for, before the floor
Lowered(s) == Most(RDiv(s, ZOOM_FACTOR), MIN_ZOOM)

\* a zoom-out from view p takes the floor branch
Floored(p) ==
    /\ ~IsNone(p.default_scale)
    /\ RLt(Lowered(p.scale_factor), Get(p.default_scale))

\* along one axis: the new offset is anchor - (anchor - offset) * (new / old)
\* and the image point under the anchor is the same before and after
AnchorKept(anchor, offset, scale, new_offset, new_scale) ==
    /\ new_offset =
           RSub(R(anchor), RMul(RSub(R(anchor), offset), RDiv(new_scale, scale)))
    /\ RDiv(RSub(R(anchor), new_offset), new_scale) =
           RDiv(RSub(R(anchor), offset), scale)

RoundTrip ==
    /\ Len(trail) >= 2
    /\ trail[Len(trail) - 1].op = "zoom_in"
    /\ trail[Len(trail)].op = "zoom_out"
    /\ trail[Len(trail) - 1].x = trail[Len(trail)].x
    /\ trail[Len(trail) - 1].y = trail[Len(trail)].y
    /\ ~IsNone(ip.display_image)

\* the view before the zoom-in of the round trip, and between the two calls
Start == trail[Len(trail) - 1].ip

Middle == trail[Len(trail)].ip

Returned ==
    /\ ip.scale_factor = Start.scale_factor
    /\ ip.canvas_offset = Start.canvas_offset

Unclamped ==
    /\ RLe(RMul(Start.scale_factor, ZOOM_FACTOR), MAX_ZOOM)
    /\ RLe(MIN_ZOOM, RDiv(Middle.scale_factor, ZOOM_FACTOR))
    /\ ~Floored(Middle)

ImagePoints == {<<R(0), R(0)>>, <<R(1), R(3)>>, <<R(50), R(7)>>, <<Rat(25, 2), R(209)>>}

ScaleInRange(p) == RLe(MIN_ZOOM, p.scale_factor) /\ RLe(p.scale_factor, MAX_ZOOM)

\* image -> screen -> image
There(p) == image_to_screen_coords(ip, p[1], p[2])

Back(p) == screen_to_image_coords(ip, There(p)[1], There(p)[2])

Near(back, coordinate) ==
    RLt(RAbs(RSub(R(back), coordinate)), RAdd(R(1), RDiv(R(1), ip.scale_factor)))

MaxIndex == 3

NavViews ==
    {navigate_to_image(load_images_from_folder(ImageProcessor_init, folder_path).ip,
                       index).ip :
        folder_path \in Folders, index \in 0..MaxIndex}

NavInit ==
    /\ ip \in NavViews
    /\ rm = ROIManager_init
    /\ canvas = Canvas_init
    /\ ui = UI_init
    /\ app = App_init
    /\ mouse = "up"
    /\ disk = Disk_init
    /\ io = << >>
    /\ last = NoOp
    /\ trail = << >>

CallNext == Call("next", 0, 0, next_image(ip).ret, next_image(ip).ip)

CallPrevious == Call("previous", 0, 0, previous_image(ip).ret, previous_image(ip).ip)

CallNavigate(index) ==
    Call("navigate", index, 0, navigate_to_image(ip, index).ret,
         navigate_to_image(ip, index).ip)

NavNext ==
    \/ CallNext
    \/ CallPrevious
    \/ \E index \in (0 - 1)..MaxIndex : CallNavigate(index)

SpecNav == NavInit /\ [][NavNext]_vars

\* view p after n calls of next()
RECURSIVE NextTimes(_, _)
NextTimes(p, n) == IF n = 0 THEN p ELSE NextTimes(next_image(p).ip, n - 1)

\* the last two calls were op1 and then op2
Called(op1, op2) ==
    /\ Len(trail) >= 2
    /\ trail[Len(trail) - 1].op = op1
    /\ trail[Len(trail)].op = op2

\* C10: on a sequence of N images, next() N times returns to the index it
\* started from, previous() undoes next() and next() undoes previous(), and
\* both wrap: next() at the last index gives 0, previous() at 0 gives N - 1.
C10_CyclicNavigation ==
    LET N == Len(ip.image_paths)
        i == ip.current_image_index
    IN  N > 0 =>
          /\ NextTimes(ip, N).current_image_index = i
          /\ previous_image(next_image(ip).ip).ip = ip
          /\ next_image(previous_image(ip).ip).ip = ip
          /\ next_image(ip).ip.current_image_index = (IF i = N - 1 THEN 0 ELSE i + 1)
          /\ previous_image(ip).ip.current_image_index = (IF i = 0 THEN N - 1 ELSE i - 1)
          /\ (Called("next", "previous") \/ Called("previous", "next")) =>
                 ip.current_image_index = Start.current_image_index

\* next() has just wrapped from the last of three images to the first
C10_Witness ==
    /\ Len(ip.image_paths) = 3
    /\ Len(trail) >= 1
    /\ trail[Len(trail)].op = "next"
    /\ trail[Len(trail)].ip.current_image_index = 2
    /\ ip.current_image_index = 0

(***************************************************************************)
(* SpecView: loading, navigating, zooming and resetting the view.  Folder A *)
(* holds images that fit the canvas at scales 1 and 1/2, folder H one of   *)
(* 10000 x 7500 pixels that fits at 0.08.  The wheel turns over (100, 50). *)
(***************************************************************************)
ViewNext ==
    \/ \E folder_path \in {"A", "H"} : OnInputFolderChanged(folder_path, Size)
    \/ OnNextImage(Size)
    \/ OnPreviousImage(Size)
    \/ OnZoomIn(Size)
    \/ OnZoomOut(Size)
    \/ \E delta \in {0 - 120, 120} : OnMouseWheel(delta, 100, 50)
    \/ OnResetView(Size)

SpecView == Init /\ [][ViewNext]_vars


\* with an image loaded the scale is at least default_scale
AboveDefault ==
    ~IsNone(ip.display_image) => RLe(Get(ip.default_scale), ip.scale_factor)

\* a zoom-out that would go below default_scale sets the scale to
\* default_scale and the offset to (0, 0)
ZoomOutFloor ==
    (last'.op = "zoom_out" /\ ~IsNone(ip.display_image) /\ Floored(ip)) =>
        /\ ip'.scale_factor = Get(ip.default_scale)
        /\ ip'.canvas_offset = [x |-> R(0), y |-> R(0)]

\* C8: a zoom-out that would take the scale below default_scale sets the
\* scale to default_scale and the offset to (0, 0); with an image loaded no
\* sequence of zoom operations leaves the scale below default_scale.
C8_DefaultScaleFloor == []AboveDefault /\ [][ZoomOutFloor]_vars

\* a zoom-out has just hit the floor on a view that was moved
C8_Witness ==
    /\ last.op = "zoom_out"
    /\ ~IsNone(ip.display_image)
    /\ RLt(Lowered(last.before.scale_factor), Get(ip.default_scale))
    /\ last.before.canvas_offset.x # R(0)
    /\ ip.scale_factor = Get(ip.default_scale)
    /\ ip.canvas_offset = [x |-> R(0), y |-> R(0)]

\* C9: for every image size and canvas size, after any load, zoom, reset or
\* navigation, scale_factor lies within [MIN_ZOOM, MAX_ZOOM] = [0.1, 20.0].
C9_ScaleWithinZoomLimits == ScaleInRange(ip)


(***************************************************************************)
(* SpecSeq: the sequence methods called on their own from the start of the *)
(* application: load_images_from_folder on a folder with three images (A), *)
(* two (D), one (S) or none (E), and the three navigation methods.         *)
(***************************************************************************)
SeqFolders == {"A", "D", "S", "E", "G"}

CallLoad(folder_path) ==
    Call("load", 0, 0, load_images_from_folder(ip, folder_path).ret,
         load_images_from_folder(ip, folder_path).ip)

SeqNext ==
    \/ \E folder_path \in SeqFolders : CallLoad(folder_path)
    \/ CallNext
    \/ CallPrevious
    \/ \E index \in (0 - 1)..MaxIndex : CallNavigate(index)

SpecSeq == Init /\ [][SeqNext]_vars

\* the index names an image of a non-empty sequence
IndexInRange ==
    ip.image_paths # << >> =>
        /\ 0 <= ip.current_image_index
        /\ ip.current_image_index < Len(ip.image_paths)

\* a navigation call that cannot move: next or previous on an empty
\* sequence, navigate_to_image with an index outside the sequence
CannotMove ==
    \/ last'.op \in {"next", "previous"} /\ ip.image_paths = << >>
    \/ /\ last'.op = "navigate"
       /\ (last'.x < 0 \/ last'.x >= Len(ip.image_paths))

\* C11: after any sequence of load, next, previous and navigate calls the
\* index of a non-empty sequence lies in 0..length-1; next and previous on an
\* empty sequence and navigate_to_image with an index out of range return
\* False and leave the index (and the sequence) as they were.
C11_IndexInRange ==
    /\ []IndexInRange
    /\ [][CannotMove => (~last'.ret /\ ip' = ip)]_vars

\* next() has just been refused on the empty sequence a failed load left
\* behind, with the index of the earlier sequence still in place
C11_Witness ==
    /\ ip.image_paths = << >>
    /\ ip.current_image_index = 2
    /\ last.op = "next"
    /\ ~last.ret


(***************************************************************************)
(* Exporting.  Folder D holds two readable images shown at scale 2/5,      *)
(* folder S one shown at scale 1, folder E none.  The pointer draws one    *)
(* ROI; the export folder is X.  Every write may be failed by the          *)
(* environment: fault.at names the write that fails (0: none).             *)
(***************************************************************************)
MaxFault == 2
MaxFiles == 2

ExportPoints == {<<4, 4>>, <<22, 22>>}

Answers == {"refused", "partial"}

NoFault == [at |-> 0, how |-> "ok"]

Faults ==
    {NoFault, [at |-> 0, how |-> "makedirs"]}
        \cup {[at |-> k, how |-> h] : k \in 1..MaxFault, h \in Answers}

\* the answers of the environment that make a difference to an export of
\* the given type: a later encoder is asked only after the earlier failed
Encoders(export_type) ==
    {[makedirs |-> m, primary |-> "ok", secondary |-> "ok", stills |-> NoFault] :
        m \in BOOLEAN}
        \cup [makedirs : {TRUE}, primary : Answers, secondary : {"ok"}, stills : {NoFault}]
        \cup IF export_type = "gif" THEN {}
             ELSE [makedirs : {TRUE}, primary : Answers, secondary : Answers,
                   stills : Faults]

Settings ==
    [export_type : {"gif", "video"},
     filename : {<<"a", "n", "i", "m", "a", "t", "i", "o", "n">>}]

\* the pointer is used to draw the ROI on the images of folder D, before
\* the first crop
Drawing ==
    /\ ip.cropped_images = << >>
    /\ Len(ip.image_paths) = 2
    /\ (~has_roi(rm) \/ rm.is_drawing)

\* SpecSave: cropping and saving the crops.
SaveNext ==
    \/ \E folder_path \in {"D", "S", "E"} : OnInputFolderChanged(folder_path, Size)
    \/ OnDrawRoi
    \/ Drawing /\ Pointer(ExportPoints, 0, MaxCrop)
    \/ OnCropAll
    \/ OnExportFolderChanged("X")
    \/ \E fault \in Faults : OnSaveImages(fault)

SpecSave == Init /\ [][SaveNext]_vars

\* SpecAnim: the animation exports on the crops of folder D, which are made
\* before the first export; at most MaxFiles files are exported.
AnimNext ==
    \/ disk = {} /\ OnInputFolderChanged("D", Size)
    \/ disk = {} /\ OnDrawRoi
    \/ Drawing /\ Pointer(ExportPoints, 0, MaxCrop)
    \/ disk = {} /\ OnCropAll
    \/ disk = {} /\ OnExportFolderChanged("X")
    \/ \E fault \in Faults : OnMakeGif(fault) /\ Cardinality(disk') <= MaxFiles
    \/ \E settings \in Settings : \E env \in Encoders(settings.export_type) :
          CallCreateAnimation("X", settings, env) /\ Cardinality(disk') <= MaxFiles

SpecAnim == Init /\ [][AnimNext]_vars


\* a video export has just been asked of create_animation
VideoStep == last'.op = "create_animation video"

\* the export was turned down before any encoder was asked: no cropped
\* images, a frame without pixels, or no export folder
Rejected == io' = << >>

Failed(i) == i <= Len(io') /\ io'[i].answer # "ok"

\* the writes of a video export come in the order of the three methods, each
\* asked only after the ones before it failed
TiersInOrder ==
    \A i \in 1..Len(io') :
        CASE io'[i].call = "mimsave mp4" -> i = 1
          [] io'[i].call = "ffmpeg writer" ->
                i = 2 /\ io'[1].call = "mimsave mp4" /\ Failed(1)
          [] io'[i].call = "frame" ->
                /\ i >= 3
                /\ io'[1].call = "mimsave mp4" /\ Failed(1)
                /\ io'[2].call = "ffmpeg writer" /\ Failed(2)
                /\ i > 3 => io'[i - 1].answer = "ok"
          [] OTHER -> FALSE

\* the frames were not all written
StillsFailed == Len(io') = 2 \/ Failed(Len(io'))

AllTiersFailed == Failed(1) /\ Failed(2) /\ StillsFailed

\* success is reported as soon as one method succeeds
FirstSuccessEnds ==
    /\ (Len(io') >= 1 /\ ~Failed(1)) => (last'.ret /\ Len(io') = 1)
    /\ (Len(io') >= 2 /\ ~Failed(2)) => (last'.ret /\ Len(io') = 2)
    /\ (Len(io') >= 3 /\ ~StillsFailed) =>
          /\ last'.ret
          /\ Len(io') = 2 + Len(ip.cropped_images)
          /\ ui'.dialogs = <<"info: frames saved">>

\* C12 as stated: a video export tries imageio's MP4 writer, then the FFMPEG
\* writer, then the still frames, each only after the earlier ones failed; it
\* reports success as soon as one succeeds and failure only if all three
\* failed.
C12_EncoderFallback ==
    [][VideoStep =>
          /\ TiersInOrder
          /\ FirstSuccessEnds
          /\ ~last'.ret => AllTiersFailed]_vars

\* C12, amended: as stated, except that create_animation also reports
\* failure, without asking any encoder, when the export is turned down before
\* encoding (no cropped images, a frame without pixels, or an export folder
\* that cannot be created).
C12_EncoderFallbackOnceEncoding ==
    [][VideoStep =>
          /\ TiersInOrder
          /\ FirstSuccessEnds
          /\ ~last'.ret => (AllTiersFailed \/ Rejected)]_vars

\* a video export has just succeeded by its third method: both encoders
\* failed, the two frames were written and the message was shown
C12_Witness ==
    /\ last.op = "create_animation video"
    /\ last.ret
    /\ Len(io) = 4
    /\ io[1].answer # "ok" /\ io[2].answer # "ok"
    /\ io[3].call = "frame" /\ io[4].call = "frame"
    /\ ui.dialogs = <<"info: frames saved">>


\* an animation export has just run: Make GIF, or create_animation
AnimationStep ==
    last'.op \in {"make_gif", "create_animation gif", "create_animation video"}

\* C13: every animation export writes only to paths that did not exist when
\* it started, and leaves every file that existed as it was: a second export
\* with the same settings makes a second file (name.ext, then name (1).ext).
C13_ExportsNeverOverwrite ==
    [][AnimationStep =>
          /\ \A i \in 1..Len(io') : ~io'[i].existed
          /\ \A f \in disk : f \in disk']_vars

\* create_animation has just exported the GIF a second time, next to the
\* first one
C13_Witness ==
    /\ last.op = "create_animation gif"
    /\ last.ret
    /\ Len(io) = 1
    /\ io[1].path = Path("X", <<"a", "n", "i", "m", "a", "t", "i", "o", "n", " ",
                               "(", "1", ")", ".", "g", "i", "f">>)
    /\ ~io[1].existed
    /\ Exists(disk, Path("X", <<"a", "n", "i", "m", "a", "t", "i", "o", "n",
                                ".", "g", "i", "f">>))
    /\ Content(disk, io[1].path).kind = "gif"


\* Save Images has just run on a crop result set and an export folder
SaveStep ==
    /\ last'.op = "save_images"
    /\ ip.cropped_images # << >>
    /\ ui.export_folder # ""

\* <original-basename>_cropped<original-extension> for the three-letter
\* extensions of the folders
Expected(image_path) ==
    LET base == image_path.base
        n    == Len(base)
    IN  Path(ui.export_folder,
             SubSeq(base, 1, n - 4) \o <<"_", "c", "r", "o", "p", "p", "e", "d">>
                 \o SubSeq(base, n - 3, n))

\* the i-th crop is on the disk under the name of the i-th image
Saved(files, i) ==
    /\ Exists(files, Expected(ip.image_paths[i]))
    /\ Content(files, Expected(ip.image_paths[i])) =
           [kind |-> "image", of |-> <<ip.cropped_images[i]>>]

\* the state after the step, as save_cropped_images takes it
After ==
    [ip |-> ip', rm |-> rm', canvas |-> canvas', ui |-> ui', disk |-> disk',
     io |-> << >>]

FailedWrite == Len(io')

\* C15: if the k-th write of a save fails, the save stops there and reports
\* failure: the files of images 1..k-1 are on the disk, nothing is written
\* for an image after k, and the crop result set is unchanged.
C15_PartialSaveStops ==
    [][(SaveStep /\ io' # << >> /\ \E i \in 1..Len(io') : io'[i].answer # "ok") =>
          /\ io'[FailedWrite].answer # "ok"
          /\ \A i \in 1..(FailedWrite - 1) : io'[i].answer = "ok" /\ Saved(disk', i)
          /\ \A i \in (FailedWrite + 1)..Len(ip.cropped_images) :
                i <= Len(ip.image_paths) =>
                    \A f \in disk' : f.path = Expected(ip.image_paths[i]) => f \in disk
          /\ ~last'.ret
          /\ ui'.dialogs = <<"error: save">>
          /\ ip'.cropped_images = ip.cropped_images]_vars

\* the second write of a save into the empty folder has just been refused:
\* the first file is there, the second is not, the crops are kept
C15_Witness ==
    /\ last.op = "save_images"
    /\ ~last.ret
    /\ Len(io) = 2
    /\ io[2].answer = "refused"
    /\ ~io[1].existed
    /\ {f.path : f \in disk} = {io[1].path}
    /\ Len(ip.cropped_images) = 2

\* C16: the crop result set is empty, or as long as the image sequence with
\* the i-th crop made from the i-th path.
C16_CropsAligned ==
    \/ ip.cropped_images = << >>
    \/ /\ Len(ip.cropped_images) = Len(ip.image_paths)
       /\ \A i \in 1..Len(ip.cropped_images) :
             ip.cropped_images[i].src = ip.image_paths[i]

\* a crop of d1.png has just been saved under the name of s.png
C16_Witness ==
    /\ last.op = "save_images"
    /\ \E f \in disk :
          /\ f.path = Path("X", <<"s", "_", "c", "r", "o", "p", "p", "e", "d",
                                  ".", "p", "n", "g">>)
          /\ f.content.kind = "image"
          /\ f.content.of[1].src = Path("D", <<"d", "1", ".", "p", "n", "g">>)


(***************************************************************************)
(* SpecEdit: editing the ROI with the pointer on the 400 x 300 image of    *)
(* folder A, shown in the corner of the canvas at scale 1 or, after one     *)
(* turn of the wheel over the point (20, 20), at scale 1.2.  The pointer   *)
(* reaches corners, an edge and the inside of a 20 x 20 ROI, and a point   *)
(* that takes a moved ROI off the image.                                   *)
(***************************************************************************)
MinEdit == 10
MaxEdit == 40

EditPoints == {<<20, 20>>, <<40, 40>>, <<30, 30>>, <<30, 20>>, <<0, 10>>}

\* the editor's states
Ready ==
    has_roi(rm) /\ ~rm.is_drawing /\ IsNone(rm.active_handle) /\ ~rm.is_dragging

Resizing == has_roi(rm) /\ ~rm.is_drawing /\ ~IsNone(rm.active_handle)

Moving ==
    has_roi(rm) /\ ~rm.is_drawing /\ IsNone(rm.active_handle) /\ rm.is_dragging

\* the ROI from (20, 20) to (40, 40) on the image shown at scale 1
Square ==
    /\ ip.scale_factor = R(1)
    /\ rm.roi_coords = Some([start_x |-> R(20), start_y |-> R(20),
                             end_x |-> R(40), end_y |-> R(40)])

EditNext ==
    \/ ip.scale_factor = R(1) /\ OnInputFolderChanged("A", Size)
    \/ OnDrawRoi
    \/ Pointer(EditPoints, 0 - MinEdit, MaxEdit)
    \/ Square /\ Ready /\ mouse = "up" /\ OnMouseWheel(120, 20, 20)

SpecEdit == Init /\ [][EditNext]_vars

\* the handles whose square on the canvas holds the point
HitHandles(p) ==
    IF IsNone(canvas.handles) THEN {}
    ELSE LET h == Get(canvas.handles)
             at == [nw |-> <<h[1], h[2]>>, ne |-> <<h[3], h[2]>>,
                    sw |-> <<h[1], h[4]>>, se |-> <<h[3], h[4]>>]
         IN  {t \in HandleTags : /\ Abs(p[1] - at[t][1]) <= HANDLE_SIZE
                                 /\ Abs(p[2] - at[t][2]) <= HANDLE_SIZE}

\* the rectangle on the canvas holds the point
HitRectangle(p) ==
    /\ ~IsNone(canvas.roi)
    /\ LET r == Get(canvas.roi)
       IN  /\ Outside(p[1], IF r[1] <= r[3] THEN r[1] ELSE r[3],
                            IF r[1] <= r[3] THEN r[3] ELSE r[1]) = 0
           /\ Outside(p[2], IF r[2] <= r[4] THEN r[2] ELSE r[4],
                            IF r[2] <= r[4] THEN r[4] ELSE r[2]) = 0

\* the ROIManager after a pointer-down at p in this state
Pressed(p) ==
    handle_mouse_press([ip |-> ip, rm |-> rm, canvas |-> canvas, ui |-> ui,
                        disk |-> disk, io |-> << >>], p[1], p[2], Size).rm

\* C17: a pointer-down in Ready on a corner handle starts Resizing with a
\* handle that was hit, also when the point lies on the rectangle; otherwise
\* a pointer-down on the rectangle starts Moving; otherwise (no draw request
\* is pending in Ready) the editor is unchanged.
C17_HitTestPrecedence ==
    (Ready /\ mouse = "up" /\ ~app.pan_mode) =>
        \A p \in EditPoints :
            IF HitHandles(p) # {}
            THEN /\ ~IsNone(Pressed(p).active_handle)
                 /\ Get(Pressed(p).active_handle) \in HitHandles(p)
                 /\ ~Pressed(p).is_dragging
            ELSE IF HitRectangle(p)
            THEN Pressed(p).is_dragging /\ IsNone(Pressed(p).active_handle)
            ELSE Pressed(p) = rm

\* a pointer-down on a handle that lies on the rectangle has just started
\* Resizing
C17_Witness ==
    /\ last.op = "mouse_press"
    /\ Resizing
    /\ HitRectangle(<<rm.drag_start.x, rm.drag_start.y>>)
    /\ Get(rm.active_handle) \in HitHandles(<<rm.drag_start.x, rm.drag_start.y>>)

\* a drag of the ROI manager has just been handled
DragStep == last'.op = "mouse_drag" /\ ~app.pan_mode

\* the image-space delta of the drag: the way of the pointer over the scale
DeltaX == RDiv(R(rm'.drag_start.x - rm.drag_start.x), ip.scale_factor)

DeltaY == RDiv(R(rm'.drag_start.y - rm.drag_start.y), ip.scale_factor)

\* C18: a drag in Resizing adds the image-space delta to the two stored
\* coordinates the active handle owns (nw: start_x, start_y; ne: end_x,
\* start_y; sw: start_x, end_y; se: end_x, end_y) and leaves the other two.
C18_ResizeOwnedFields ==
    [][(DragStep /\ Resizing) =>
          LET k == Get(rm.roi_coords)
              n == Get(rm'.roi_coords)
              h == Get(rm.active_handle)
              west  == h \in {"nw", "sw"}
              north == h \in {"nw", "ne"}
          IN  /\ n.start_x = (IF west THEN RAdd(k.start_x, DeltaX) ELSE k.start_x)
              /\ n.end_x   = (IF west THEN k.end_x ELSE RAdd(k.end_x, DeltaX))
              /\ n.start_y = (IF north THEN RAdd(k.start_y, DeltaY) ELSE k.start_y)
              /\ n.end_y   = (IF north THEN k.end_y ELSE RAdd(k.end_y, DeltaY))]_vars

\* the se handle has just been dragged from (40, 40) to (30, 30) at scale
\* 1.2: end_x and end_y moved by -10 / 1.2, start_x and start_y did not
C18_Witness ==
    /\ last.op = "mouse_drag"
    /\ Resizing
    /\ ip.scale_factor = <<6, 5>>
    /\ rm.active_handle = Some("se")
    /\ Get(rm.roi_coords).start_x = R(20)
    /\ Get(rm.roi_coords).start_y = R(20)
    /\ Get(rm.roi_coords).end_x = <<95, 3>>
    /\ Get(rm.roi_coords).end_y = <<95, 3>>

C20_ReleaseNotifies ==
    [][(last'.op = "mouse_release" /\ ~app.pan_mode /\ (Resizing \/ Moving)) =>
          /\ Ready'
          /\ rm'.roi_coords = rm.roi_coords
          /\ ui'.notified]_vars

\* a pointer-up has just ended a resize: the editor is Ready with the ROI
C20_Witness ==
    /\ last.op = "mouse_release"
    /\ Ready
    /\ Get(rm.roi_coords).end_x # R(40)
    /\ ~ui.notified


(***************************************************************************)
(* clear_roi in every state of the editor, under SpecRoi.                  *)
(***************************************************************************)
\* the program as it stands
Now ==
    [ip |-> ip, rm |-> rm, canvas |-> canvas, ui |-> ui, disk |-> disk, io |-> io]

\* the program as a handler finds it
Here ==
    [Now EXCEPT !.ui = [ui EXCEPT !.notified = FALSE, !.dialogs = << >>],
                !.io = << >>]

\* the editor holds no ROI and no gesture, and the canvas no item of it
Idle(st) ==
    /\ ~has_roi(st.rm)
    /\ ~st.rm.is_drawing
    /\ ~st.rm.is_dragging
    /\ IsNone(st.rm.active_handle)
    /\ st.rm.roi_rect = "None"
    /\ IsNone(st.canvas.roi)
    /\ IsNone(st.canvas.handles)

\* Idle, and the callback ran and found no ROI
Cleared(st) ==
    /\ Idle(st)
    /\ IsNone(get_roi_coordinates(st.rm))
    /\ get_roi_dimensions(st.rm) = <<0, 0>>
    /\ st.ui.notified
    /\ st.ui.dimensions = <<0, 0>>

\* C21: clear_roi called in any state of the editor (Idle, Drawing, Ready,
\* Resizing, Moving) leaves it Idle: no ROI, no rectangle, no handles, no
\* gesture, no coordinates, dimensions (0, 0), and the ROI-changed callback
\* has run and has read dimensions (0, 0); "Delete ROI" does just this.
C21_ClearGivesIdle ==
    /\ []Cleared(clear_roi(Here))
    /\ [][last'.op = "delete_roi" => Cleared(Now')]_vars

\* "Delete ROI" has just cleared the ROI in the middle of a gesture
C21_Witness ==
    /\ last.op = "delete_roi"
    /\ mouse = "down"
    /\ Cleared(Now)


(***************************************************************************)
(* SpecBlank: the application before any image is loaded.  Folder E holds  *)
(* no image, so the load fails and there is still no image; the pointer    *)
(* moves between three points, in pan mode or not.                         *)
(***************************************************************************)
BlankPoints == {<<0, 0>>, <<50, 0>>, <<0, 50>>}

BlankNext ==
    \/ OnInputFolderChanged("E", Size)
    \/ OnTogglePan
    \/ Pointer(BlankPoints, 0, 0)
    \/ OnZoomIn(Size)
    \/ OnZoomOut(Size)
    \/ \E delta \in {0 - 120, 120} : OnMouseWheel(delta, 100, 50)
    \/ OnResetView(Size)
    \/ OnLocateCell(100, 50, Size)

SpecBlank == Init /\ [][BlankNext]_vars

NoImage == IsNone(ip.original_image) /\ IsNone(ip.display_image)

\* the operations on the viewport: zoom in and out (buttons and wheel),
\* reset view, a drag in pan mode, centering on coordinates
ViewportStep ==
    \/ last'.op \in {"zoom_in", "zoom_out", "reset_view", "locate_cell"}
    \/ last'.op = "mouse_drag" /\ app.pan_mode

\* C22: with no image loaded, zoom in, zoom out, reset view, a pan drag and
\* centering on coordinates leave the scale and the offset as they were.
C22_NoImageNoOp ==
    [][(NoImage /\ ViewportStep) =>
          /\ ip'.scale_factor = ip.scale_factor
          /\ ip'.canvas_offset = ip.canvas_offset]_vars

\* no image is loaded and a pan drag has just moved the offset
C22_Witness ==
    /\ NoImage
    /\ last.op = "mouse_drag"
    /\ app.pan_mode
    /\ ip.canvas_offset = [x |-> R(50), y |-> R(0)]
    /\ ip.scale_factor = R(1)


(***************************************************************************)
(* The view across navigation, under SpecView.                             *)
(***************************************************************************)
\* Previous or Next has just moved to an image and loaded it
NavigationStep == last'.op \in {"next", "previous"} /\ last'.ret

\* the image the sequence stands on
CurrentPath(p) == p.image_paths[p.current_image_index + 1]

\* C23: a navigation with Next or Previous computes default_scale anew for
\* the image it loads, and leaves scale_factor and canvas_offset as they were
\* before the navigation.
C23_NavigationKeepsView ==
    [][NavigationStep =>
          /\ ip'.default_scale =
                 Some(FitScale(ImageSize(CurrentPath(ip'))[1],
                               ImageSize(CurrentPath(ip'))[2], Size[1], Size[2]))
          /\ ip'.scale_factor = ip.scale_factor
          /\ ip'.canvas_offset = ip.canvas_offset]_vars

\* Next or Previous has just replaced a zoomed view, which no reset view
\* would have changed to this scale, by the fit of the new image
C23_Witness ==
    /\ last.op \in {"next", "previous"}
    /\ last.ret
    /\ last.before.scale_factor # ip.scale_factor
    /\ last.before.canvas_offset # ip.canvas_offset
    /\ ip.scale_factor = Get(ip.default_scale)
    /\ ip.canvas_offset = [x |-> R(0), y |-> R(0)]


(***************************************************************************)
(* SpecKeep: an ROI on the images of folder A while the view changes.  The *)
(* ROI is drawn and edited with the view at scale 1 in the corner of the   *)
(* canvas; the buttons zoom one step in from the fitted view, and a pan    *)
(* shifts the view by at most MaxShift.                                    *)
(***************************************************************************)
KeepPoints == {<<20, 20>>, <<40, 40>>}

Home ==
    /\ ip.scale_factor = R(1)
    /\ ip.canvas_offset = [x |-> R(0), y |-> R(0)]

\* the view as a load or a reset leaves it
Fitted ==
    /\ ~IsNone(ip.default_scale)
    /\ ip.scale_factor = Get(ip.default_scale)
    /\ ip.canvas_offset = [x |-> R(0), y |-> R(0)]

MaxShift == 20

\* the view is panned by at most MaxShift
Shifted ==
    /\ InWindow(ip.canvas_offset.x, 0 - MaxShift, MaxShift)
    /\ InWindow(ip.canvas_offset.y, 0 - MaxShift, MaxShift)

KeepNext ==
    \/ OnInputFolderChanged("A", Size)
    \/ OnDrawRoi
    \/ (app.pan_mode \/ Home) /\ Pointer(KeepPoints, MinCoord, MaxCoord) /\ Shifted'
    \/ OnTogglePan
    \/ OnNextImage(Size)
    \/ OnPreviousImage(Size)
    \/ Fitted /\ OnZoomIn(Size)
    \/ OnZoomOut(Size)
    \/ OnResetView(Size)
    \/ OnDeleteRoi
    \/ OnResetEverything

SpecKeep == Init /\ [][KeepNext]_vars

\* a step of navigation, zoom, pan or reset view
ViewStep ==
    \/ last'.op \in {"next", "previous", "zoom_in", "zoom_out", "reset_view"}
    \/ last'.op \in {"mouse_press", "mouse_drag"} /\ app.pan_mode

\* a step that draws, resizes, moves or clears the ROI or asks for a drawing
EditStep ==
    \/ last'.op \in {"mouse_press", "mouse_drag"} /\ ~app.pan_mode
    \/ last'.op \in {"mouse_release", "delete_roi", "draw_roi", "reset_everything"}

\* the corners in image space and the state of the editor
Editor(m) ==
    [roi_coords |-> m.roi_coords, is_drawing |-> m.is_drawing,
     is_dragging |-> m.is_dragging, active_handle |-> m.active_handle]

\* C24: Next, Previous, zoom in, zoom out, a pan (press and drag in pan mode)
\* and reset view leave the stored corners of the ROI and the state of the
\* editor as they were; the corners change only in a step that draws,
\* resizes, moves or clears the ROI, asks for a new drawing, or resets
\* everything.
C24_ViewKeepsRoi ==
    [][/\ ViewStep => Editor(rm') = Editor(rm)
       /\ rm'.roi_coords # rm.roi_coords => EditStep]_vars

\* Next has just loaded c.jpg, which is shown at scale 1/2, and the ROI drawn
\* on another image is still there and ready
C24_Witness ==
    /\ last.op = "next"
    /\ last.ret
    /\ ip.scale_factor = <<1, 2>>
    /\ Ready
    /\ get_roi_coordinates(rm) = Some(<<R(20), R(20), R(40), R(40)>>)


(***************************************************************************)
(* load_images_from_folder, under SpecSeq.  Folder G holds one file of     *)
(* each supported extension but .png, a hidden .png and a .png.txt.        *)
(***************************************************************************)
\* the name ends with the extension
EndsWith(base, ext) ==
    /\ Len(base) >= Len(ext)
    /\ SubSeq(base, Len(base) - Len(ext) + 1, Len(base)) = ext

\* the name ends with one of .jpg .jpeg .png .tif .tiff .bmp .gif
Supported(base) ==
    \E k \in 1..Len(SUPPORTED_FORMATS) : EndsWith(base, Tail(SUPPORTED_FORMATS[k]))

\* the names in the folder
Names(dir) == {DirListing(dir)[i] : i \in 1..Len(DirListing(dir))}

\* the sequence holds exactly the given names of one folder, each once, in
\* ascending order, and the index is 0
SequenceIs(p, names) ==
    /\ {p.image_paths[i].base : i \in 1..Len(p.image_paths)} = names
    /\ \A i \in 1..Len(p.image_paths) : p.image_paths[i].dir = p.image_paths[1].dir
    /\ \A i, j \in 1..Len(p.image_paths) :
           i < j => StrLess(p.image_paths[i].base, p.image_paths[j].base)
    /\ p.current_image_index = 0

LoadStep == last'.op = "load" /\ last'.ret

\* C25 as stated: after a successful load the sequence consists of exactly
\* the files of the folder whose name ends with a supported extension, each
\* once, in lexicographic order, and the index is 0.
C25_LoadsSupportedSorted ==
    [][LoadStep =>
          SequenceIs(ip', {b \in Names(ip'.image_paths[1].dir) : Supported(b)})]_vars

\* C25 amended: after a successful load the sequence consists of exactly the
\* files of the folder whose name ends with a supported extension and does
\* not begin with a dot, each once, in lexicographic order, and the index is
\* 0 whatever it was before.
C25_LoadsVisibleSupportedSorted ==
    [][LoadStep =>
          SequenceIs(ip', {b \in Names(ip'.image_paths[1].dir) :
                               Supported(b) /\ b[1] # "."})]_vars

\* folder G has just been loaded while the index stood at 2: six images in
\* order, the index back at 0
C25_Witness ==
    /\ last.op = "load"
    /\ last.ret
    /\ trail[Len(trail)].ip.current_image_index = 2
    /\ ip.current_image_index = 0
    /\ Len(ip.image_paths) = 6
    /\ ip.image_paths[1] = Path("G", <<"g", ".", "b", "m", "p">>)
    /\ ip.image_paths[6] = Path("G", <<"g", ".", "t", "i", "f", "f">>)


(***************************************************************************)
(* A folder without images, under SpecSave.                                *)
(***************************************************************************)
\* the input folder has just been changed to one in which no image was found
NothingFound ==
    /\ last'.op = "input_folder"
    /\ ui'.dialogs = <<"warning: no images">>

\* C26: when the load of a folder finds no matching file, the failure is
\* reported and the sequence loaded before, the index and the displayed image
\* are as they were, so that navigation and Crop All go on working on that
\* sequence.
C26_FailedLoadKeepsSequence ==
    [][NothingFound =>
          /\ ~last'.ret
          /\ ip'.image_paths = ip.image_paths
          /\ ip'.current_image_index = ip.current_image_index
          /\ ip'.original_image = ip.original_image
          /\ ip'.display_image = ip.display_image]_vars

\* after a failed load the image of the folder loaded before is still shown
\* with its ROI, and Crop All has just answered that no images are loaded
C26_Witness ==
    /\ last.op = "crop_all"
    /\ ~last.ret
    /\ ui.dialogs = <<"warning: no images">>
    /\ ip.image_paths = << >>
    /\ ip.original_image = Some(Path("D", <<"d", "1", ".", "p", "n", "g">>))
    /\ Ready


(***************************************************************************)
(* SpecNoCrops: the exports with and without crops.  The crops of folder D *)
(* are made and exported; Crop All on folder B fails at the unreadable     *)
(* i3.png and empties the crops, and so does Reset Everything.  Every      *)
(* write succeeds.                                                         *)
(***************************************************************************)
\* an environment in which every write succeeds
Working ==
    [makedirs |-> TRUE, primary |-> "ok", secondary |-> "ok", stills |-> NoFault]

NoCropsNext ==
    \/ \E folder_path \in {"D", "B"} : OnInputFolderChanged(folder_path, Size)
    \/ OnDrawRoi
    \/ /\ ip.cropped_images = << >>
       /\ ~has_roi(rm) \/ rm.is_drawing
       /\ Pointer(ExportPoints, 0, MaxCrop)
    \/ OnCropAll
    \/ OnResetEverything
    \/ OnExportFolderChanged("X")
    \/ OnSaveImages(NoFault) /\ Cardinality(disk') <= MaxFiles
    \/ OnMakeGif(NoFault) /\ Cardinality(disk') <= MaxFiles
    \/ \E settings \in Settings :
          CallCreateAnimation("X", settings, Working) /\ Cardinality(disk') <= MaxFiles

SpecNoCrops == Init /\ [][NoCropsNext]_vars

\* Save Images, Make GIF or create_animation has just been asked for
ExportStep ==
    last'.op \in {"save_images", "make_gif",
                  "create_animation gif", "create_animation video"}

\* C27: with no crops (never cropped, after a Crop All that failed, after
\* Reset Everything) save_cropped_images, create_gif and create_animation
\* return False and write nothing: no write is attempted and the disk is as
\* it was.
C27_NoCropsNoExport ==
    [][(ExportStep /\ ip.cropped_images = << >>) =>
          /\ ~last'.ret
          /\ io' = << >>
          /\ disk' = disk]_vars

\* the crops of folder D were exported and are gone, by a Crop All that
\* failed on folder B or by Reset Everything; an export has just been refused
C27_Witness ==
    /\ last.op \in {"save_images", "make_gif",
                    "create_animation gif", "create_animation video"}
    /\ ~last.ret
    /\ ui.export_folder = "X"
    /\ ip.cropped_images = << >>
    /\ Len(ip.image_paths) = 3
    /\ has_roi(rm)
    /\ disk # {}
    /\ io = << >>


(***************************************************************************)
(* SpecReset: Reset View and Reset Everything on the images of folder A,   *)
(* after zooming one step, panning by at most MaxShift, locating a cell,   *)
(* drawing an ROI (once, in the fitted view of a 400 x 300 image) and      *)
(* cropping (once).                                                        *)
(***************************************************************************)
ResetCells == {<<30, 40>>}

ResetNext ==
    \/ OnInputFolderChanged("A", Size)
    \/ OnNextImage(Size)
    \/ \E c \in ResetCells : OnLocateCell(c[1], c[2], Size)
    \/ ~has_roi(rm) /\ OnDrawRoi
    \/ /\ app.pan_mode \/ (Home /\ (~has_roi(rm) \/ rm.is_drawing))
       /\ Pointer(KeepPoints, MinCoord, MaxCoord)
       /\ Shifted'
    \/ mouse = "up" /\ OnTogglePan
    \/ ip.cropped_images = << >> /\ OnCropAll
    \/ ~IsNone(ip.default_scale) /\ ip.scale_factor = Get(ip.default_scale) /\ OnZoomIn(Size)
    \/ OnResetView(Size)
    \/ OnResetEverything

SpecReset == Init /\ [][ResetNext]_vars

\* Reset View has just been asked for with an image loaded
ResetViewStep == last'.op = "reset_view" /\ ~IsNone(ip.display_image)

\* default_scale is the fit of the loaded image and at most 1
DefaultFits(p) ==
    /\ p.default_scale =
           Some(FitScale(ImageSize(Get(p.original_image))[1],
                         ImageSize(Get(p.original_image))[2], Size[1], Size[2]))
    /\ RLe(Get(p.default_scale), R(1))

\* C28 as stated: a Reset View request with an image loaded leaves the scale
\* at default_scale = min(canvasW / imgW, canvasH / imgH, 1.0) <= 1 and the
\* offset at (0, 0), whatever the view was.
C28_ResetViewFits ==
    [][ResetViewStep =>
          /\ DefaultFits(ip')
          /\ ip'.scale_factor = Get(ip'.default_scale)
          /\ ip'.canvas_offset = [x |-> R(0), y |-> R(0)]]_vars

\* the offset that puts the image point (x, y) in the middle of the canvas
CentredOn(p, x, y) ==
    [x |-> RSub(R(Size[1] \div 2), RMul(R(x), p.scale_factor)),
     y |-> RSub(R(Size[2] \div 2), RMul(R(y), p.scale_factor))]

\* C28 amended: a Reset View request with an image loaded leaves the scale
\* at default_scale <= 1, whatever the view was, and the offset at (0, 0) if
\* no cell is located (cell coordinates (0, 0)); if a cell is located the
\* view is centred on it at the default scale.
C28_ResetViewFitsOrCentres ==
    [][ResetViewStep =>
          /\ DefaultFits(ip')
          /\ ip'.scale_factor = Get(ip'.default_scale)
          /\ ip'.canvas_offset =
                 (IF ip.cell_coords.x # 0 \/ ip.cell_coords.y # 0
                  THEN CentredOn(ip', ip.cell_coords.x, ip.cell_coords.y)
                  ELSE [x |-> R(0), y |-> R(0)])]_vars

\* Reset View has just brought a zoomed and shifted view, with no cell
\* located, back to the fit in the corner of the canvas
C28_Witness ==
    /\ last.op = "reset_view"
    /\ ~IsNone(ip.display_image)
    /\ ip.cell_coords = [x |-> 0, y |-> 0]
    /\ last.before.scale_factor # ip.scale_factor
    /\ last.before.canvas_offset # ip.canvas_offset
    /\ Fitted


\* Reset Everything has just been asked for with an image loaded
ResetEverythingStep == last'.op = "reset_everything" /\ ~IsNone(ip.display_image)

\* C29: Reset Everything with images loaded leaves the ROI editor Idle with
\* no ROI, the cell coordinates (0, 0) with the crosshair hidden, no crops,
\* and the view at default_scale with offset (0, 0); the image sequence, the
\* index and the loaded image are as they were.
C29_ResetEverythingKeepsImages ==
    [][ResetEverythingStep =>
          /\ Idle(Now')
          /\ get_roi_dimensions(rm') = <<0, 0>>
          /\ ui'.dimensions = <<0, 0>>
          /\ ip'.cell_coords = [x |-> 0, y |-> 0]
          /\ ~ip'.show_crosshair
          /\ IsNone(canvas'.crosshair)
          /\ ip'.cropped_images = << >>
          /\ ip'.scale_factor = Get(ip'.default_scale)
          /\ ip'.canvas_offset = [x |-> R(0), y |-> R(0)]
          /\ ip'.image_paths = ip.image_paths
          /\ ip'.current_image_index = ip.current_image_index
          /\ ip'.original_image = ip.original_image
          /\ ip'.default_scale = ip.default_scale]_vars

\* Reset Everything has just discarded three crops and a changed view while
\* the second image of folder A stays loaded
C29_Witness ==
    /\ last.op = "reset_everything"
    /\ last.before.crops = 3
    /\ last.before.canvas_offset # [x |-> R(0), y |-> R(0)]
    /\ last.before.scale_factor # ip.scale_factor
    /\ Len(ip.image_paths) = 3
    /\ ip.current_image_index = 1
    /\ ip.cropped_images = << >>
    /\ Idle(Now)
    /\ Fitted


(***************************************************************************)
(* SpecInfo: get_file_info on every path of up to MaxName characters out   *)
(* of a letter, the dot and the separator, and on the path of the test.    *)
(* The call and its result are kept in io.                                 *)
(***************************************************************************)
MaxName == 5

Alphabet == {"a", ".", "/"}

test_image == <<"t", "e", "s", "t", "_", "i", "m", "a", "g", "e", ".", "p", "n", "g">>

FilePaths ==
    UNION {[1..n -> Alphabet] : n \in 0..MaxName}
        \cup {test_image, <<"D", "/">> \o test_image}

CallGetFileInfo(file_path) ==
    /\ io' = <<[call |-> "get_file_info", path |-> file_path, existed |-> FALSE,
                answer |-> get_file_info(file_path)]>>
    /\ last' = Op("get_file_info", 0, 0, TRUE)
    /\ UNCHANGED <<ip, rm, canvas, ui, app, mouse, disk, trail>>

InfoNext == \E file_path \in FilePaths : CallGetFileInfo(file_path)

SpecInfo == Init /\ [][InfoNext]_vars

InfoCalled == last.op = "get_file_info"

\* C30: get_file_info of a path returns (name, ext) with name + ext the
\* basename of the path and ext either empty or the last dot of the basename
\* with what follows it; save_cropped_images names the crop of that file
\* <name>_cropped<ext> with the same name and ext.
C30_FileInfoSplitsBasename ==
    InfoCalled =>
        LET file_path == io[1].path
            name == io[1].answer[1]
            ext  == io[1].answer[2]
        IN  /\ name \o ext = basename(file_path)
            /\ \/ ext = << >>
               \/ /\ ext[1] = "."
                  /\ \A i \in 2..Len(ext) : ext[i] # "."
            /\ \A i \in 1..Len(name) : name[i] # "/"
            /\ CroppedPath("X", Path("D", basename(file_path))).base =
                   name \o <<"_", "c", "r", "o", "p", "p", "e", "d">> \o ext

\* the test of the repository: 'test_image.png' gives ('test_image', '.png')
C30_Witness ==
    /\ InfoCalled
    /\ io[1].path = test_image
    /\ io[1].answer = << <<"t", "e", "s", "t", "_", "i", "m", "a", "g", "e">>,
                         <<".", "p", "n", "g">> >>


(***************************************************************************)
(* The pointer-up that ends a draw, under SpecRoi.                         *)
(***************************************************************************)
\* a pointer-up has just ended a draw and the draft was kept
FinalizeStep == last'.op = "mouse_release" /\ rm.is_drawing /\ has_roi(rm')

\* the stored corners are in order: start is the least corner
StoredInOrder(m) ==
    /\ RLe(Get(m.roi_coords).start_x, Get(m.roi_coords).end_x)
    /\ RLe(Get(m.roi_coords).start_y, Get(m.roi_coords).end_y)

\* the handle tagged nw is at the least corner of the handles on the canvas
\* and the handle tagged se at the greatest
HandlesInOrder(c) ==
    /\ ~IsNone(c.handles)
    /\ Get(c.handles)[1] <= Get(c.handles)[3]
    /\ Get(c.handles)[2] <= Get(c.handles)[4]

\* C31: a pointer-up that finalizes a drawn rectangle of sufficient size
\* leaves the editor Ready with the four handles drawn and the stored
\* corners in order, so that nw is the least corner and se the greatest,
\* whatever the direction of the draw.
C31_FinishNormalizes ==
    [][FinalizeStep =>
          /\ Ready'
          /\ StoredInOrder(rm')
          /\ HandlesInOrder(canvas')]_vars

\* a rectangle drawn from (40, 40) up and left to (20, 20) has just been
\* finalized: the editor is Ready, and the handle tagged nw is drawn at
\* (40, 40)
C31_Witness ==
    /\ last.op = "mouse_release"
    /\ ui.notified
    /\ Ready
    /\ rm.roi_coords = Some([start_x |-> R(40), start_y |-> R(40),
                             end_x |-> R(20), end_y |-> R(20)])
    /\ canvas.handles = Some(<<40, 40, 20, 20>>)


(***************************************************************************)
(* SpecUnique: _get_unique_filename of the ImageProcessor and of the       *)
(* animation dialog, on a disk that other programs and the exports fill.   *)
(* An export writes its file at the path _get_unique_filename returned     *)
(* (create_animation, line 309), so that repeated exports make the         *)
(* numbered files up to a counter of two digits; other programs make the   *)
(* files of Others, which leave gaps in the numbers.  At most MaxCopies    *)
(* files are on the disk.  The call and its result are kept in io.         *)
(***************************************************************************)
MaxCopies == 11

a_gif == <<"a", ".", "g", "i", "f">>

\* the paths asked for: a name with an extension, without one, a dot-file,
\* and the same name in another folder
Wanted ==
    {Path("X", a_gif), Path("X", <<"a">>), Path("X", <<".", "a">>),
     Path("Y", a_gif)}

\* files that other programs leave on the disk
Others ==
    {Path("X", a_gif),
     Path("X", <<"a", " ", "(", "2", ")", ".", "g", "i", "f">>),
     Path("X", <<"a", " ", "(", "1", ")">>),
     Path("X", <<".", "a">>)}

Foreign == [kind |-> "foreign", of |-> << >>]

\* the loop of AnimationExportDialog._get_unique_filename from counter on:
\* it returns the new name, not the new path
RECURSIVE DialogUniqueFrom(_, _, _)
DialogUniqueFrom(files, filepath, counter) ==
    LET parts    == splitext(filepath.base)
        new_name == parts[1] \o <<" ", "(">> \o str(counter) \o <<")">> \o parts[2]
        new_path == Path(filepath.dir, new_name)
    IN  IF ~Exists(files, new_path) THEN new_name
        ELSE DialogUniqueFrom(files, filepath, counter + 1)

\* AnimationExportDialog._get_unique_filename: the name of the file, for
\* the preview of the dialog
dialog_get_unique_filename(files, filepath) ==
    IF ~Exists(files, filepath) THEN filepath.base
    ELSE DialogUniqueFrom(files, filepath, 1)

\* another program creates a file
Touch(path) ==
    /\ ~Exists(disk, path)
    /\ Cardinality(disk) < MaxCopies
    /\ disk' = disk \cup {[path |-> path, content |-> Foreign]}
    /\ io' = << >>
    /\ last' = Op("touch", 0, 0, TRUE)
    /\ UNCHANGED <<ip, rm, canvas, ui, app, mouse, trail>>

\* an export writes its file where _get_unique_filename said
WriteUnique(filepath) ==
    /\ Cardinality(disk) < MaxCopies
    /\ Becomes(Write(Begin, "mimsave gif", get_unique_filename(disk, filepath),
                     [kind |-> "gif", of |-> << >>], "ok"))
    /\ last' = Op("write_unique", 0, 0, TRUE)
    /\ UNCHANGED <<app, mouse, trail>>

CallGetUniqueFilename(filepath) ==
    /\ io' = <<[call |-> "ImageProcessor", path |-> filepath,
                existed |-> Exists(disk, filepath),
                answer |-> get_unique_filename(disk, filepath)]>>
    /\ last' = Op("get_unique_filename", 0, 0, TRUE)
    /\ UNCHANGED <<ip, rm, canvas, ui, app, mouse, disk, trail>>

CallDialogGetUniqueFilename(filepath) ==
    /\ io' = <<[call |-> "AnimationExportDialog", path |-> filepath,
                existed |-> Exists(disk, filepath),
                answer |-> Path(filepath.dir,
                                dialog_get_unique_filename(disk, filepath))]>>
    /\ last' = Op("get_unique_filename", 0, 0, TRUE)
    /\ UNCHANGED <<ip, rm, canvas, ui, app, mouse, disk, trail>>

UniqueNext ==
    \/ \E path \in Others : Touch(path)
    \/ \E filepath \in {Path("X", a_gif), Path("X", <<"a">>)} : WriteUnique(filepath)
    \/ \E filepath \in Wanted : CallGetUniqueFilename(filepath)
    \/ \E filepath \in Wanted : CallDialogGetUniqueFilename(filepath)

SpecUnique == Init /\ [][UniqueNext]_vars

UniqueCalled == last.op = "get_unique_filename"

\* 'name (k).ext' next to the path
Numbered(filepath, k) ==
    Path(filepath.dir,
         splitext(filepath.base)[1] \o <<" ", "(">> \o str(k) \o <<")">>
             \o splitext(filepath.base)[2])

\* C32: _get_unique_filename returns, after at most as many rounds as there
\* are files, the given path if no file has it, and otherwise 'name (k).ext'
\* for the least k >= 1 that no file has; no file has the path returned.
\* (The dialog's variant returns the file name of that path.)
C32_UniqueFilename ==
    UniqueCalled =>
        LET filepath == io[1].path
            answer   == io[1].answer
        IN  /\ ~Exists(disk, answer)
            /\ IF ~Exists(disk, filepath) THEN answer = filepath
               ELSE \E k \in 1..Cardinality(disk) :
                       /\ answer = Numbered(filepath, k)
                       /\ \A j \in 1..(k - 1) : Exists(disk, Numbered(filepath, j))

\* a.gif and its copies (1) to (9) exist: the answer is 'a (10).gif'
C32_Witness ==
    /\ UniqueCalled
    /\ io[1].call = "ImageProcessor"
    /\ io[1].existed
    /\ io[1].answer = Path("X", <<"a", " ", "(", "1", "0", ")", ".", "g", "i", "f">>)


(***************************************************************************)
(* SpecStale: the ROI is edited after the crops were made.  The images of  *)
(* folder D are shown at scale 2/5; the ROI is drawn, resized, moved and   *)
(* deleted with the pointer before and after Crop All, and the crops are   *)
(* saved and exported between the gestures, at most MaxFiles files; Crop   *)
(* All is run, once or again, before the first file is written.            *)
(***************************************************************************)
\* two corners and a point of the upper edge of the ROI drawn between them
StalePoints == {<<4, 4>>, <<13, 4>>, <<22, 22>>}

StaleNext ==
    \/ ip.image_paths = << >> /\ OnInputFolderChanged("D", Size)
    \/ OnDrawRoi
    \/ Pointer(StalePoints, MinCrop, MaxCrop)
    \/ OnDeleteRoi
    \/ disk = {} /\ mouse = "up" /\ OnCropAll
    \/ disk = {} /\ OnExportFolderChanged("X")
    \/ mouse = "up" /\ OnSaveImages(NoFault) /\ Cardinality(disk') <= MaxFiles
    \/ mouse = "up" /\ OnMakeGif(NoFault) /\ Cardinality(disk') <= MaxFiles
    \/ \E settings \in Settings :
          /\ mouse = "up"
          /\ CallCreateAnimation("X", settings, Working)
          /\ Cardinality(disk') <= MaxFiles

SpecStale == Init /\ [][StaleNext]_vars

\* an operation of the ROI editor: a draw request, a pointer event, a delete
RoiEditStep ==
    last'.op \in {"draw_roi", "mouse_press", "mouse_drag", "mouse_release",
                  "delete_roi"}

\* the files written by the step hold the crops that were there before it
WritesCrops ==
    \A i \in 1..Len(io') :
        LET content == Content(disk', io'[i].path)
        IN  IF last'.op = "save_images"
            THEN content = [kind |-> "image", of |-> <<ip.cropped_images[i]>>]
            ELSE content.of = ip.cropped_images

\* the crops were cut with the box of the ROI as it is now
Fresh(p, m) ==
    \A i \in 1..Len(p.cropped_images) :
        /\ has_roi(m)
        /\ p.cropped_images[i].box =
               <<PyRound(Get(get_roi_coordinates(m))[1]),
                 PyRound(Get(get_roi_coordinates(m))[2]),
                 PyRound(Get(get_roi_coordinates(m))[3]),
                 PyRound(Get(get_roi_coordinates(m))[4])>>

\* C33: an operation of the ROI editor (draw request, pointer-down, drag,
\* pointer-up, delete) leaves the crop result set as it was, and a save or
\* an animation export that succeeds writes the crops of the result set as
\* it stands, whether or not the ROI has changed since Crop All.
C33_EditsKeepCrops ==
    [][/\ RoiEditStep => ip'.cropped_images = ip.cropped_images
       /\ (ExportStep /\ last'.ret) =>
             /\ ip'.cropped_images = ip.cropped_images
             /\ io' # << >>
             /\ WritesCrops]_vars

\* the crops of the box (10, 10, 55, 55) have just been exported as a GIF
\* after the ROI was resized to another box
C33_Witness ==
    /\ last.op = "make_gif"
    /\ last.ret
    /\ Ready
    /\ ~Fresh(ip, rm)
    /\ Len(ip.cropped_images) = 2
    /\ ip.cropped_images[1].box = <<10, 10, 55, 55>>
    /\ Content(disk, io[1].path).of = ip.cropped_images


(***************************************************************************)
(* Binary64 arithmetic.  Where the last bit of a Python float decides what *)
(* the program shows, the float expressions of the source are computed as  *)
(* IEEE 754 binary64 computes them: the exact result, rounded to 53        *)
(* significant bits, ties to even.  A natural number of any size is the    *)
(* sequence of its bits, least significant first, with no leading zero; a  *)
(* float is [neg, m, e], of value (-1)^neg * m * 2^e with m of at most 53  *)
(* bits, odd or zero.  The exponent range is not modelled: the values of   *)
(* the ROI editor are far from overflow and underflow.                     *)
(***************************************************************************)
MantissaBits == 53

BitAt(b, i) == IF i <= Len(b) THEN b[i] ELSE 0

\* b without its leading zeros
Trim(b) ==
    LET ones == {i \in 1..Len(b) : b[i] = 1}
    IN  IF ones = {} THEN << >>
        ELSE SubSeq(b, 1, CHOOSE i \in ones : \A j \in ones : j <= i)

RECURSIVE BitsOf(_)
BitsOf(n) == IF n = 0 THEN << >> ELSE <<n % 2>> \o BitsOf(n \div 2)

RECURSIVE NatOf(_)
NatOf(b) == IF b = << >> THEN 0 ELSE b[1] + 2 * NatOf(Tail(b))

\* A number is added, subtracted, compared and multiplied in limbs of
\* LimbBits bits, least significant first, so that no intermediate result
\* leaves the integers of the model checker.
LimbBits == 14

Base == 2 ^ LimbBits

RECURSIVE LimbFrom(_, _, _)
LimbFrom(b, i, n) ==
    IF n = 0 THEN 0 ELSE BitAt(b, i) + 2 * LimbFrom(b, i + 1, n - 1)

Limbs(b) ==
    [j \in 1..((Len(b) + LimbBits - 1) \div LimbBits) |->
        LimbFrom(b, LimbBits * (j - 1) + 1, LimbBits)]

BitsOfLimbs(l) ==
    Trim([i \in 1..(LimbBits * Len(l)) |->
             (l[((i - 1) \div LimbBits) + 1] \div (2 ^ ((i - 1) % LimbBits))) % 2])

LimbAt(l, j) == IF j <= Len(l) THEN l[j] ELSE 0

RECURSIVE LAddFrom(_, _, _, _)
LAddFrom(x, y, j, carry) ==
    IF j > Len(x) /\ j > Len(y)
    THEN IF carry = 0 THEN << >> ELSE <<carry>>
    ELSE LET s == LimbAt(x, j) + LimbAt(y, j) + carry
         IN  <<s % Base>> \o LAddFrom(x, y, j + 1, s \div Base)

\* x - y, for x >= y
RECURSIVE LSubFrom(_, _, _, _)
LSubFrom(x, y, j, borrow) ==
    IF j > Len(x) THEN << >>
    ELSE LET s == LimbAt(x, j) - LimbAt(y, j) - borrow
         IN  <<s % Base>> \o LSubFrom(x, y, j + 1, IF s < 0 THEN 1 ELSE 0)

RECURSIVE LLeFrom(_, _, _)
LLeFrom(x, y, j) ==
    IF j = 0 THEN TRUE
    ELSE IF LimbAt(x, j) # LimbAt(y, j) THEN LimbAt(x, j) < LimbAt(y, j)
    ELSE LLeFrom(x, y, j - 1)

\* the sum of the products x[i] * y[k + 1 - i]
RECURSIVE Column(_, _, _, _)
Column(x, y, k, i) ==
    IF i > Len(x) THEN 0
    ELSE LimbAt(x, i) * (IF k + 1 - i >= 1 THEN LimbAt(y, k + 1 - i) ELSE 0)
             + Column(x, y, k, i + 1)

RECURSIVE LMulFrom(_, _, _, _)
LMulFrom(x, y, k, carry) ==
    IF k > Len(x) + Len(y)
    THEN IF carry = 0 THEN << >> ELSE <<carry>>
    ELSE LET s == Column(x, y, k, 1) + carry
         IN  <<s % Base>> \o LMulFrom(x, y, k + 1, s \div Base)

BAdd(x, y) == BitsOfLimbs(LAddFrom(Limbs(x), Limbs(y), 1, 0))

BSub(x, y) == BitsOfLimbs(LSubFrom(Limbs(x), Limbs(y), 1, 0))

\* x <= y
BLe(x, y) ==
    IF Len(x) # Len(y) THEN Len(x) < Len(y)
    ELSE LLeFrom(Limbs(x), Limbs(y), Len(Limbs(x)))

\* x * 2^k
Shl(x, k) == IF x = << >> THEN x ELSE [i \in 1..k |-> 0] \o x

\* x div 2^k
Shr(x, k) == SubSeq(x, k + 1, Len(x))

\* x * y, for x and y of at most 56 bits
BMul(x, y) == BitsOfLimbs(LMulFrom(Limbs(x), Limbs(y), 1, 0))

\* x <= y, in limbs
LLe(x, y) == LLeFrom(x, y, IF Len(x) >= Len(y) THEN Len(x) ELSE Len(y))

\* one step of the long division by d # 0, the remainder and d in limbs:
\* the next bit of the numerator is taken into the remainder and gives the
\* next bit of the quotient
DivStep(s, bit, d) ==
    LET r2 == LAddFrom(s.r, s.r, 1, bit)
    IN  IF LLe(d, r2) THEN [q |-> <<1>> \o s.q, r |-> LSubFrom(r2, d, 1, 0)]
        ELSE [q |-> <<0>> \o s.q, r |-> r2]

\* the long division from the bit i of n down, eight bits at a time
RECURSIVE BDivFrom(_, _, _, _)
BDivFrom(n, d, i, s) ==
    IF i = 0 \/ Len(s.q) < 0 THEN s
    ELSE IF i >= 8
    THEN BDivFrom(n, d, i - 8,
             DivStep(DivStep(DivStep(DivStep(DivStep(DivStep(DivStep(DivStep(
                 s, n[i], d), n[i - 1], d), n[i - 2], d), n[i - 3], d),
                 n[i - 4], d), n[i - 5], d), n[i - 6], d), n[i - 7], d))
    ELSE BDivFrom(n, d, i - 1, DivStep(s, n[i], d))

\* quotient and remainder of n by d # 0; the leading bits of n that are
\* fewer than the bits of d give no quotient bit
BDivMod(n, d) ==
    IF Len(n) < Len(d) THEN [q |-> << >>, r |-> n]
    ELSE LET s == BDivFrom(n, Limbs(d), Len(n) - Len(d) + 1,
                           [q |-> << >>,
                            r |-> Limbs(SubSeq(n, Len(n) - Len(d) + 2, Len(n)))])
         IN  [q |-> Trim(s.q), r |-> BitsOfLimbs(s.r)]

\* the number of zero bits below the lowest one bit of n # 0
LowZeros(n) == (CHOOSE i \in 1..Len(n) : n[i] = 1 /\ \A j \in 1..(i - 1) : n[j] = 0) - 1

\* the float of value (-1)^neg * n * 2^e, for n of at most 53 bits
Canon(neg, n, e) ==
    IF n = << >> THEN [neg |-> FALSE, m |-> << >>, e |-> 0]
    ELSE [neg |-> neg, m |-> Shr(n, LowZeros(n)), e |-> e + LowZeros(n)]

\* the float nearest to (-1)^neg * n * 2^e, ties to even
RoundBits(neg, n, e) ==
    IF Len(n) <= MantissaBits THEN Canon(neg, n, e)
    ELSE LET k      == Len(n) - MantissaBits
             keep   == Shr(n, k)
             sticky == \E i \in 1..(k - 1) : n[i] = 1
             up     == n[k] = 1 /\ (sticky \/ keep[1] = 1)
         IN  Canon(neg, IF up THEN BAdd(keep, <<1>>) ELSE keep, e + k)

\* float(i) of an integer of the model
F(i) == Canon(i < 0, BitsOf(IF i < 0 THEN 0 - i ELSE i), 0)

FNeg(x) == IF x.m = << >> THEN x ELSE [x EXCEPT !.neg = ~x.neg]

FAbs(x) == [x EXCEPT !.neg = FALSE]

\* the magnitudes of x and y as multiples of 2^e, e the lesser exponent
Aligned(x, y) ==
    LET e == IF x.e <= y.e THEN x.e ELSE y.e
    IN  [x |-> Shl(x.m, x.e - e), y |-> Shl(y.m, y.e - e), e |-> e]

FAdd(x, y) ==
    LET a == Aligned(x, y)
    IN  IF x.neg = y.neg THEN RoundBits(x.neg, BAdd(a.x, a.y), a.e)
        ELSE IF BLe(a.y, a.x) THEN RoundBits(x.neg, BSub(a.x, a.y), a.e)
        ELSE RoundBits(y.neg, BSub(a.y, a.x), a.e)

FSub(x, y) == FAdd(x, FNeg(y))

FMul(x, y) == RoundBits(x.neg # y.neg, BMul(x.m, y.m), x.e + y.e)

\* x / y for y # 0: the quotient to more than 53 bits, with one more bit
\* that says whether a remainder was left
FDiv(x, y) ==
    IF x.m = << >> THEN x
    ELSE LET k  == MantissaBits + 3 + Len(y.m) - Len(x.m)
             qr == BDivMod(Shl(x.m, k), y.m)
         IN  RoundBits(x.neg # y.neg,
                       <<IF qr.r = << >> THEN 0 ELSE 1>> \o qr.q,
                       x.e - y.e - k - 1)

FLe(x, y) ==
    LET a == Aligned(x, y)
    IN  IF x.neg # y.neg THEN x.neg
        ELSE IF x.neg THEN BLe(a.y, a.x)
        ELSE BLe(a.x, a.y)

FLt(x, y) == ~FLe(y, x)

FMin(x, y) == IF FLt(y, x) THEN y ELSE x

FMax(x, y) == IF FLt(x, y) THEN y ELSE x

\* int(x): truncation toward zero
FInt(x) ==
    LET n == NatOf(IF x.e >= 0 THEN Shl(x.m, x.e) ELSE Shr(x.m, 0 - x.e))
    IN  IF x.neg THEN 0 - n ELSE n

\* the literal 1.2 of AppConfig.ZOOM_FACTOR
ZOOM_FACTOR64 ==
    [neg |-> FALSE,
     m   |-> <<1, 1, 0, 0, 1, 1, 0, 0, 1, 1, 0, 0, 1, 1, 0, 0, 1, 1,
               0, 0, 1, 1, 0, 0, 1, 1, 0, 0, 1, 1, 0, 0, 1, 1, 0, 0,
               1, 1, 0, 0, 1, 1, 0, 0, 1, 1, 0, 0, 1, 1, 0, 0, 1>>,
     e   |-> -52]

\* the float a number of the view is: a whole number, or the scale 1.2 that
\* one zoom step from 1.0 gives (SameInBinary64); the view of SpecFloat holds
\* no other number
Float(r) ==
    CASE r[2] = 1 -> F(r[1])
      [] r = ZOOM_FACTOR -> ZOOM_FACTOR64

(***************************************************************************)
(* The ROI editor in binary64.  The corners of the ROI are floats; the     *)
(* scale and the offset of the view are the rationals of the model,        *)
(* rounded to the nearest float, which is what Python holds for the scales *)
(* 1 and 1.2 and the whole-number offsets of SpecFloat (SameInBinary64).   *)
(***************************************************************************)
screen_to_image_coords64(p, screen_x, screen_y) ==
    <<FInt(FDiv(FSub(F(screen_x), Float(p.canvas_offset.x)), Float(p.scale_factor))),
      FInt(FDiv(FSub(F(screen_y), Float(p.canvas_offset.y)), Float(p.scale_factor)))>>

image_to_screen_coords64(p, img_x, img_y) ==
    <<FInt(FAdd(FMul(img_x, Float(p.scale_factor)), Float(p.canvas_offset.x))),
      FInt(FAdd(FMul(img_y, Float(p.scale_factor)), Float(p.canvas_offset.y)))>>

get_roi_coordinates64(m) ==
    IF IsNone(m.roi_coords) THEN None
    ELSE LET c == Get(m.roi_coords)
         IN  Some(<<FMin(c.start_x, c.end_x), FMin(c.start_y, c.end_y),
                    FMax(c.start_x, c.end_x), FMax(c.start_y, c.end_y)>>)

get_roi_dimensions64(m) ==
    LET coords == get_roi_coordinates64(m)
    IN  IF IsNone(coords) THEN <<0, 0>>
        ELSE <<FInt(FSub(Get(coords)[3], Get(coords)[1])),
               FInt(FSub(Get(coords)[4], Get(coords)[2]))>>

on_roi_changed64(st) ==
    [st EXCEPT !.ui.dimensions = get_roi_dimensions64(st.rm),
               !.ui.notified = TRUE]

ScreenCorners64(st) ==
    LET c == Get(st.rm.roi_coords)
        p == image_to_screen_coords64(st.ip, c.start_x, c.start_y)
        q == image_to_screen_coords64(st.ip, c.end_x, c.end_y)
    IN  <<p[1], p[2], q[1], q[2]>>

draw_roi_rectangle64(st) ==
    IF IsNone(st.rm.roi_coords) THEN st
    ELSE IF st.rm.roi_rect = "live"
         THEN [st EXCEPT !.canvas.roi = Some(ScreenCorners64(st))]
    ELSE IF st.rm.roi_rect = "stale"
         THEN st
    ELSE [st EXCEPT !.canvas.roi = Some(ScreenCorners64(st)),
                    !.rm.roi_rect = "live"]

draw_resize_handles64(st) ==
    IF IsNone(st.rm.roi_coords) THEN clear_resize_handles(st)
    ELSE [st EXCEPT !.canvas.handles = Some(ScreenCorners64(st))]

start_roi_drawing64(st, screen_x, screen_y) ==
    IF ~st.rm.is_drawing THEN st
    ELSE LET img == screen_to_image_coords64(st.ip, screen_x, screen_y)
         IN  draw_roi_rectangle64(
                 [st EXCEPT
                     !.rm.roi_coords = Some([start_x |-> F(img[1]),
                                             start_y |-> F(img[2]),
                                             end_x   |-> F(img[1]),
                                             end_y   |-> F(img[2])]),
                     !.rm.drag_start = [x |-> screen_x, y |-> screen_y]])

update_roi_drawing64(st, screen_x, screen_y) ==
    IF ~st.rm.is_drawing \/ IsNone(st.rm.roi_coords) THEN st
    ELSE LET img == screen_to_image_coords64(st.ip, screen_x, screen_y)
             c   == Get(st.rm.roi_coords)
         IN  on_roi_changed64(draw_roi_rectangle64(
                 [st EXCEPT !.rm.roi_coords =
                     Some([c EXCEPT !.end_x = F(img[1]), !.end_y = F(img[2])])]))

finish_roi_drawing64(st) ==
    IF IsNone(st.rm.roi_coords) THEN st
    ELSE LET c      == Get(st.rm.roi_coords)
             width  == FAbs(FSub(c.end_x, c.start_x))
             height == FAbs(FSub(c.end_y, c.start_y))
         IN  IF FLt(width, F(MIN_ROI_SIZE)) \/ FLt(height, F(MIN_ROI_SIZE))
             THEN clear_roi(st)
             ELSE on_roi_changed64(draw_resize_handles64(
                      [st EXCEPT !.rm.is_drawing = FALSE]))

DragDelta64(st, x, y) ==
    [dx |-> FDiv(F(x - st.rm.drag_start.x), Float(st.ip.scale_factor)),
     dy |-> FDiv(F(y - st.rm.drag_start.y), Float(st.ip.scale_factor))]

ResizedCoords64(c, handle, d) ==
    IF handle = "nw"
    THEN [c EXCEPT !.start_x = FAdd(c.start_x, d.dx), !.start_y = FAdd(c.start_y, d.dy)]
    ELSE IF handle = "ne"
    THEN [c EXCEPT !.end_x = FAdd(c.end_x, d.dx), !.start_y = FAdd(c.start_y, d.dy)]
    ELSE IF handle = "sw"
    THEN [c EXCEPT !.start_x = FAdd(c.start_x, d.dx), !.end_y = FAdd(c.end_y, d.dy)]
    ELSE IF handle = "se"
    THEN [c EXCEPT !.end_x = FAdd(c.end_x, d.dx), !.end_y = FAdd(c.end_y, d.dy)]
    ELSE c

resize_roi64(st, x, y) ==
    IF IsNone(st.rm.roi_coords) \/ IsNone(st.rm.active_handle) THEN st
    ELSE on_roi_changed64(draw_resize_handles64(draw_roi_rectangle64(
             [st EXCEPT
                 !.rm.roi_coords = Some(ResizedCoords64(Get(st.rm.roi_coords),
                                                        Get(st.rm.active_handle),
                                                        DragDelta64(st, x, y))),
                 !.rm.drag_start = [x |-> x, y |-> y]])))

\* variant of _move_roi that ends with _notify_roi_changed
move_roi64_notifies(st, x, y) ==
    IF IsNone(st.rm.roi_coords) THEN st
    ELSE LET c == Get(st.rm.roi_coords)
             d == DragDelta64(st, x, y)
         IN  on_roi_changed64(draw_resize_handles64(draw_roi_rectangle64(
                 [st EXCEPT
                     !.rm.roi_coords =
                         Some([start_x |-> FAdd(c.start_x, d.dx),
                               start_y |-> FAdd(c.start_y, d.dy),
                               end_x   |-> FAdd(c.end_x, d.dx),
                               end_y   |-> FAdd(c.end_y, d.dy)]),
                     !.rm.drag_start = [x |-> x, y |-> y]])))

move_roi64(st, x, y) ==
    IF IsNone(st.rm.roi_coords) THEN st
    ELSE LET c == Get(st.rm.roi_coords)
             d == DragDelta64(st, x, y)
         IN  draw_resize_handles64(draw_roi_rectangle64(
                 [st EXCEPT
                     !.rm.roi_coords =
                         Some([start_x |-> FAdd(c.start_x, d.dx),
                               start_y |-> FAdd(c.start_y, d.dy),
                               end_x   |-> FAdd(c.end_x, d.dx),
                               end_y   |-> FAdd(c.end_y, d.dy)]),
                     !.rm.drag_start = [x |-> x, y |-> y]]))

handle_mouse_press64(st, x, y, size) ==
    LET item == find_closest(st.canvas, x, y, size)
    IN  IF IsNone(item) THEN st
        ELSE IF Get(item) \in HandleTags
        THEN [st EXCEPT !.rm.active_handle = item,
                        !.rm.drag_start = [x |-> x, y |-> y]]
        ELSE IF Get(item) = "roi" /\ ~IsNone(st.rm.roi_coords)
        THEN [st EXCEPT !.rm.is_dragging = TRUE,
                        !.rm.drag_start = [x |-> x, y |-> y]]
        ELSE IF st.rm.is_drawing
        THEN start_roi_drawing64(st, x, y)
        ELSE st

handle_mouse_drag64(st, x, y) ==
    IF st.rm.is_drawing /\ ~IsNone(st.rm.roi_coords)
    THEN update_roi_drawing64(st, x, y)
    ELSE IF ~IsNone(st.rm.active_handle)
    THEN resize_roi64(st, x, y)
    ELSE IF st.rm.is_dragging
    THEN move_roi64(st, x, y)
    ELSE st

handle_mouse_release64(st) ==
    IF st.rm.is_drawing
    THEN finish_roi_drawing64(st)
    ELSE IF ~IsNone(st.rm.active_handle)
    THEN [st EXCEPT !.rm.active_handle = None]
    ELSE IF st.rm.is_dragging
    THEN [st EXCEPT !.rm.is_dragging = FALSE]
    ELSE st

\* the pointer handlers of the application with pan mode off
OnMousePress64(x, y, size) ==
    /\ mouse = "up"
    /\ ~app.pan_mode
    /\ mouse' = "down"
    /\ \E st \in {handle_mouse_press64(Begin, x, y, size)} : Becomes(st)
    /\ last' = Op("mouse_press", 0, 0, TRUE)
    /\ UNCHANGED <<app, trail>>

OnMouseDrag64(x, y) ==
    /\ mouse = "down"
    /\ ~app.pan_mode
    /\ \E st \in {handle_mouse_drag64(Begin, x, y)} : Becomes(st)
    /\ last' = Op("mouse_drag", 0, 0, TRUE)
    /\ UNCHANGED <<app, mouse, trail>>

OnMouseRelease64 ==
    /\ mouse = "down"
    /\ mouse' = "up"
    /\ \E st \in {handle_mouse_release64(Begin)} : Becomes(st)
    /\ last' = Op("mouse_release", 0, 0, TRUE)
    /\ UNCHANGED <<app, trail>>

\* ImageProcessor.zoom_in in binary64: the scale and the offset after it
zoom_in64(p, mouse_x, mouse_y) ==
    LET old_scale == Float(p.scale_factor)
        scale     == FMin(FMul(old_scale, Float(ZOOM_FACTOR)), Float(MAX_ZOOM))
    IN  [scale_factor |-> scale,
         canvas_offset |->
             [x |-> FSub(F(mouse_x),
                         FMul(FSub(F(mouse_x), Float(p.canvas_offset.x)),
                              FDiv(scale, old_scale))),
              y |-> FSub(F(mouse_y),
                         FMul(FSub(F(mouse_y), Float(p.canvas_offset.y)),
                              FDiv(scale, old_scale)))]]

\* the view after a zoom in at (mouse_x, mouse_y), as the model has it in
\* rationals, is the view that binary64 gives
SameInBinary64(mouse_x, mouse_y) ==
    /\ Float(ip'.scale_factor) = zoom_in64(ip, mouse_x, mouse_y).scale_factor
    /\ Float(ip'.canvas_offset.x) = zoom_in64(ip, mouse_x, mouse_y).canvas_offset.x
    /\ Float(ip'.canvas_offset.y) = zoom_in64(ip, mouse_x, mouse_y).canvas_offset.y

(***************************************************************************)
(* SpecFloat: the ROI editor in binary64 on the 400 x 300 image of folder  *)
(* A, at scale 1 or, after one turn of the wheel over (20, 20) before the  *)
(* ROI is drawn, at scale 1.2 with the offset (-4, -4).  The pointer draws *)
(* between (20, 20) and (40, 40), takes the ROI by a point of its upper    *)
(* edge or by a handle, and drags by a few pixels.  A ROI whose corners    *)
(* are no longer whole numbers is not dragged again, and the whole parts   *)
(* of the corners stay between MinFloat and MaxFloat.                      *)
(***************************************************************************)
MinFloat == 18
MaxFloat == 40

\* where the button goes down, and where the pointer is dragged to
PressPoints == {<<20, 20>>, <<30, 20>>}
DragPoints == {<<40, 40>>, <<32, 20>>}

Bounded64(m, low, high) ==
    IF IsNone(m.roi_coords) THEN TRUE
    ELSE \A v \in {Get(m.roi_coords).start_x, Get(m.roi_coords).start_y,
                   Get(m.roi_coords).end_x, Get(m.roi_coords).end_y} :
             low <= FInt(v) /\ FInt(v) <= high

\* the corners are whole numbers, as drawing leaves them
AsDrawn(m) ==
    IF IsNone(m.roi_coords) THEN TRUE
    ELSE \A v \in {Get(m.roi_coords).start_x, Get(m.roi_coords).start_y,
                   Get(m.roi_coords).end_x, Get(m.roi_coords).end_y} :
             v.e >= 0

FloatNext ==
    \/ ip.image_paths = << >> /\ OnInputFolderChanged("A", Size)
    \/ /\ ip.scale_factor = R(1) /\ ~has_roi(rm) /\ mouse = "up"
       /\ OnMouseWheel(120, 20, 20)
       /\ SameInBinary64(20, 20)
    \/ mouse = "up" /\ OnDrawRoi
    \/ \E p \in PressPoints : OnMousePress64(p[1], p[2], Size)
    \/ \E p \in DragPoints :
           /\ AsDrawn(rm)
           /\ OnMouseDrag64(p[1], p[2])
           /\ Bounded64(rm, MinFloat, MaxFloat)'
    \/ OnMouseRelease64

SpecFloat == Init /\ [][FloatNext]_vars

\* C34: after every operation of the ROI editor (draw request, pointer-down,
\* drag, pointer-up, with the resize, move and clear they perform) the
\* dimensions last given to the notification sink are get_roi_dimensions()
\* of the ROI as it is, and 0 x 0 when there is no ROI.
C34_SinkCurrent == ui.dimensions = get_roi_dimensions64(rm)

\* the 16 x 16 ROI drawn at scale 1.2 has just been moved: the sink still
\* has 16 x 16, and get_roi_dimensions() gives a width of 15
C34_Witness ==
    /\ last.op = "mouse_drag"
    /\ Moving
    /\ ~ui.notified
    /\ ui.dimensions = <<16, 16>>
    /\ get_roi_dimensions64(rm) = <<15, 16>>


(***************************************************************************)
(* SpecMode: the pointer, with presses and releases in turn, on the image  *)
(* of folder A at scale 1, with Draw ROI, Delete ROI, the pan-mode toggle  *)
(* and Reset Everything at any point, also while the button is down.       *)
(***************************************************************************)
ModePoints == {<<20, 20>>, <<30, 20>>, <<40, 40>>}

ModeNext ==
    \/ ip.image_paths = << >> /\ OnInputFolderChanged("A", Size)
    \/ OnDrawRoi
    \/ Pointer(ModePoints, MinCoord, MaxCoord) /\ Shifted'
    \/ OnDeleteRoi
    \/ OnTogglePan
    \/ OnResetEverything

SpecMode == Init /\ [][ModeNext]_vars

\* the modes of the editor that are active
ActiveModes(m) ==
    {mode \in {"drawing", "resizing", "moving"} :
        \/ mode = "drawing" /\ m.is_drawing
        \/ mode = "resizing" /\ ~IsNone(m.active_handle)
        \/ mode = "moving" /\ m.is_dragging}

\* C35: in every state reached by pointer events with press and release in
\* turn, draw requests, clears, pan-mode toggles and Reset Everything, at
\* most one of drawing, resizing (an active handle) and moving (dragging)
\* is active, and resizing or moving implies that an ROI exists.
C35_OneMode ==
    /\ Cardinality(ActiveModes(rm)) <= 1
    /\ (~IsNone(rm.active_handle) \/ rm.is_dragging) => has_roi(rm)

\* pan mode was switched on in the middle of a move of the ROI
C35_Witness ==
    /\ last.op = "toggle_pan" /\ app.pan_mode /\ mouse = "down"
    /\ Moving



\* the width and the height of the ROI between its ordered corners
NormalizedWidth(m) == RSub(Get(get_roi_coordinates(m))[3], Get(get_roi_coordinates(m))[1])

NormalizedHeight(m) == RSub(Get(get_roi_coordinates(m))[4], Get(get_roi_coordinates(m))[2])

\* C36: in every Ready state the normalized width and height of the ROI
\* are each at least MIN_ROI_SIZE, also after resize drags, so that Crop All
\* never runs on a rectangle of zero width or zero height.
C36_ReadyAtLeastMinimum ==
    Ready => /\ RLe(R(MIN_ROI_SIZE), NormalizedWidth(rm))
             /\ RLe(R(MIN_ROI_SIZE), NormalizedHeight(rm))

\* Crop All has run on the loaded sequence with an ROI that a resize drag
\* had shrunk to nothing
C36_Witness ==
    /\ last.op = "crop_all" /\ Ready /\ ip.image_paths # << >>
    /\ NormalizedWidth(rm) = R(0)
    /\ NormalizedHeight(rm) = R(0)



(***************************************************************************)
(* SpecRefresh: the view handlers of the application, each ending in       *)
(* _update_image_display, from the start of the program or from the        *)
(* program with the 210 x 210 image of folder S loaded, zoomed in until    *)
(* the refresh capped the scale, and the cell located at (21, 21).         *)
(***************************************************************************)
DeepShown ==
    update_image_display([ip |-> DeepView, rm |-> ROIManager_init,
                          canvas |-> Canvas_init, ui |-> UI_init,
                          disk |-> Disk_init, io |-> << >>])

RefreshInit ==
    /\ \E st \in {DeepShown,
                  [ip |-> ImageProcessor_init, rm |-> ROIManager_init,
                   canvas |-> Canvas_init, ui |-> UI_init,
                   disk |-> Disk_init, io |-> << >>]} :
           /\ ip = st.ip
           /\ rm = st.rm
           /\ canvas = st.canvas
           /\ ui = st.ui
           /\ disk = st.disk
           /\ io = st.io
    /\ app = App_init
    /\ mouse = "up"
    /\ last = NoOp
    /\ trail = << >>

RefreshNext ==
    \/ \E folder_path \in {"A", "S"} : OnInputFolderChanged(folder_path, Size)
    \/ OnZoomIn(Size)
    \/ OnZoomOut(Size)
    \/ \E delta \in {-120, 120} : OnMouseWheel(delta, 100, 50)
    \/ OnLocateCell(21, 21, Size)
    \/ OnResetView(Size)

SpecRefresh == RefreshInit /\ [][RefreshNext]_vars

\* the scale and the offset of a view
Viewport(p) == <<p.scale_factor, p.canvas_offset>>

\* what the view method of a handler makes of view p
ViewOperation(p, op, x, y) ==
    CASE op = "zoom_in" -> zoom_in(p, x, y)
      [] op = "zoom_out" -> zoom_out(p, x, y)
      [] op = "locate_cell" -> center_on_coordinates(p, x, y, CANVAS_WIDTH, CANVAS_HEIGHT)

\* a handler that changes the view and then refreshes the display
RefreshStep == last'.op \in {"zoom_in", "zoom_out", "locate_cell"}

\* C37: refreshing the display never changes the scale or the offset of
\* the view: after a zoom or a centering handler, whose last call is
\* _update_image_display, the view is the one the zoom or the centering
\* made, for every image size and zoom level.
C37_RefreshKeepsView ==
    [][RefreshStep =>
          Viewport(ip') = Viewport(ViewOperation(ip, last'.op, last'.x, last'.y))]_vars

\* Zoom In on the capped view: zoom_in raised the scale to MAX_ZOOM and
\* moved the offset, and the refresh put the scale back to 4000 / 210
C37_Witness ==
    /\ last.op = "zoom_in"
    /\ last.before.scale_factor = Rat(MAX_IMAGE_SIZE, 210)
    /\ ip.scale_factor = Rat(MAX_IMAGE_SIZE, 210)
    /\ ip.canvas_offset # last.before.canvas_offset



(***************************************************************************)
(* The settings dictionaries of the export dialogs, given to               *)
(* create_animation.                                                       *)
(***************************************************************************)
\* ExportDialog.settings: the export type starts as 'images'
ExportDialogSettings ==
    [export_type : {"images", "gif", "video"},
     filename    : {<<"e", "x", "p", "o", "r", "t">>}]

\* AnimationExportDialog.settings: the choice is kept under 'format'
AnimationDialogSettings ==
    [format   : {"gif", "video"},
     filename : {<<"a", "n", "i", "m", "a", "t", "i", "o", "n">>}]

DialogSettings == ExportDialogSettings \cup AnimationDialogSettings

\* dict.get(key, default)
settings_get(settings, key, default) ==
    IF key \in DOMAIN settings THEN settings[key] ELSE default

\* the format the user selected in the dialog the dictionary comes from
SelectedFormat(settings) ==
    IF "format" \in DOMAIN settings THEN settings.format ELSE settings.export_type

\* create_animation on a dictionary: export_type and filename are read with
\* their defaults
create_animation_from(st, export_folder, settings, env) ==
    create_animation(st, export_folder,
                     [export_type |-> settings_get(settings, "export_type", "gif"),
                      filename    |-> settings_get(settings, "filename",
                                          <<"a", "n", "i", "m", "a", "t", "i", "o", "n">>)],
                     env)

CallCreateAnimationFrom(export_folder, settings, env) ==
    LET made == create_animation_from(Begin, export_folder, settings, env)
    IN  /\ Becomes(made.st)
        /\ last' = Op("export " \o SelectedFormat(settings), 0, 0, made.ret)
        /\ UNCHANGED <<app, mouse, trail>>

\* SpecDialog: create_animation with the dictionaries of the two dialogs, on
\* the crops of folder D, which are made before the first export; at most
\* MaxFiles files are exported.
DialogNext ==
    \/ disk = {} /\ OnInputFolderChanged("D", Size)
    \/ disk = {} /\ OnDrawRoi
    \/ Drawing /\ Pointer(ExportPoints, 0, MaxCrop)
    \/ disk = {} /\ OnCropAll
    \/ \E settings \in DialogSettings :
          \E env \in Encoders(settings_get(settings, "export_type", "gif")) :
              CallCreateAnimationFrom("X", settings, env) /\ Cardinality(disk') <= MaxFiles

SpecDialog == Init /\ [][DialogNext]_vars

\* the files the step wrote or rewrote
WrittenInStep == {f \in disk' : f \notin disk}

\* create_animation has just reported success on a dictionary of a dialog
DialogSuccess == last'.op \in {"export images", "export gif", "export video"} /\ last'.ret

\* C38: whenever create_animation reports success on a settings dictionary
\* of an export dialog, the call wrote an artifact, and the format selected
\* in the dialog decides which: gif gives a GIF, video gives a video or the
\* numbered frame images.
C38_SuccessWroteSelected ==
    [][DialogSuccess =>
          /\ WrittenInStep # {}
          /\ last'.op = "export gif" =>
                 \E f \in WrittenInStep : f.content.kind = "gif"
          /\ last'.op = "export video" =>
                 \E f \in WrittenInStep : f.content.kind \in {"mp4", "image"}]_vars

\* video was selected in the animation dialog, success was reported, and
\* the folder holds a GIF named animation.gif and no video
C38_Witness ==
    /\ last.op = "export video"
    /\ last.ret
    /\ disk # {}
    /\ \A f \in disk : f.content.kind = "gif"



\* C39: whenever an ROI exists, after a refresh of the display by zoom, pan,
\* navigation or reset view the rectangle of the ROI is on the canvas at the
\* screen position of the ROI, and so are its handles unless it is being
\* drawn.
C39_RefreshKeepsRectangle ==
    [][ViewStep /\ has_roi(rm') =>
          LET corners == ScreenCorners([ip |-> ip', rm |-> rm'])
          IN  /\ canvas'.roi = Some(corners)
              /\ ~rm'.is_drawing => canvas'.handles = Some(corners)]_vars

\* a finished ROI after Zoom In: its handles are on the canvas at its
\* corners, its rectangle is not on the canvas
C39_Witness ==
    /\ last.op = "zoom_in"
    /\ Ready
    /\ rm.roi_rect = "stale"
    /\ canvas.roi = None
    /\ canvas.handles = Some(ScreenCorners([ip |-> ip, rm |-> rm]))



(***************************************************************************)
(* The controls and their callback slots.  A control's command calls the   *)
(* handler in its slot if the slot is set, and does nothing otherwise.     *)
(* The slots are set once, by _connect_callbacks, and never change.        *)
(***************************************************************************)
\* the slots as the constructors of the components leave them
PathControls_init ==
    [on_input_folder_changed |-> None, on_export_folder_changed |-> None]

ROIControls_init == [on_draw_roi |-> None]

CroppingControls_init ==
    [on_crop_all |-> None, on_save_images |-> None, on_make_animation |-> None]

MainWindow_init ==
    [on_select_input_folder |-> None, on_export |-> None,
     path_controls |-> PathControls_init,
     roi_controls  |-> ROIControls_init,
     crop_controls |-> CroppingControls_init]

\* MicroscopyImageAnalyzer._connect_callbacks: the assignment to on_make_gif
\* gives the cropping controls an attribute that no command reads
connect_callbacks(w) ==
    [w EXCEPT
        !.path_controls =
            [@ EXCEPT !.on_input_folder_changed = Some("_on_input_folder_changed"),
                      !.on_export_folder_changed = Some("_on_export_folder_changed")],
        !.roi_controls = [@ EXCEPT !.on_draw_roi = Some("_on_draw_roi")],
        !.crop_controls =
            [on_crop_all       |-> Some("_on_crop_all"),
             on_save_images    |-> Some("_on_save_images"),
             on_make_animation |-> w.crop_controls.on_make_animation,
             on_make_gif       |-> Some("_on_make_gif")]]

window == connect_callbacks(MainWindow_init)

\* the handler of the application with the given name
Invoke(handler, folder_path, fault) ==
    \/ handler = "_on_input_folder_changed" /\ OnInputFolderChanged(folder_path, Size)
    \/ handler = "_on_export_folder_changed" /\ OnExportFolderChanged(folder_path)
    \/ handler = "_on_draw_roi" /\ OnDrawRoi
    \/ handler = "_on_crop_all" /\ OnCropAll
    \/ handler = "_on_save_images" /\ OnSaveImages(fault)
    \/ handler = "_on_make_gif" /\ OnMakeGif(fault)

\* the command of a control found its slot unset: nothing is called
Dropped(control) ==
    /\ Becomes(Begin)
    /\ last' = Op("dropped " \o control, 0, 0, FALSE)
    /\ UNCHANGED <<app, mouse, trail>>

\* `if self.on_x: self.on_x(...)`
Command(control, slot, folder_path, fault) ==
    IF IsNone(slot) THEN Dropped(control)
    ELSE Invoke(Get(slot), folder_path, fault)

\* PathControls._browse_input, _browse_export
BrowseInput(folder_path) ==
    Command("browse_input", window.path_controls.on_input_folder_changed,
            folder_path, NoFault)

BrowseExport(folder_path) ==
    Command("browse_export", window.path_controls.on_export_folder_changed,
            folder_path, NoFault)

\* ROIControls._draw_roi
PressDrawRoi == Command("draw_roi", window.roi_controls.on_draw_roi, "", NoFault)

\* CroppingControls._crop_all, _save_images, _make_animation
PressCropAll == Command("crop_all", window.crop_controls.on_crop_all, "", NoFault)

PressSaveImages(fault) ==
    Command("save_images", window.crop_controls.on_save_images, "", fault)

PressMakeAnimation(fault) ==
    Command("make_animation", window.crop_controls.on_make_animation, "", fault)

\* MainWindow._open_input_folder, _show_export_dialog (the File menu)
ChooseOpenInputFolder ==
    Command("open_input_folder", window.on_select_input_folder, "", NoFault)

ChooseExport == Command("export", window.on_export, "", NoFault)

Controls ==
    {"browse_input", "browse_export", "draw_roi", "crop_all", "save_images",
     "make_animation", "open_input_folder", "export"}

\* SpecControls: the buttons and the File menu, on the images of folder D;
\* the crops are made before the first export, and at most MaxFiles files
\* are exported.
ControlsNext ==
    \/ disk = {} /\ BrowseInput("D")
    \/ disk = {} /\ BrowseExport("X")
    \/ disk = {} /\ PressDrawRoi
    \/ Drawing /\ Pointer(ExportPoints, 0, MaxCrop)
    \/ disk = {} /\ PressCropAll
    \/ \E fault \in Faults : PressSaveImages(fault) /\ Cardinality(disk') <= MaxFiles
    \/ \E fault \in Faults : PressMakeAnimation(fault) /\ Cardinality(disk') <= MaxFiles
    \/ ChooseOpenInputFolder
    \/ ChooseExport

SpecControls == Init /\ [][ControlsNext]_vars

\* C40: every command of the controls calls a handler of the application:
\* no press of a button and no choice in the File menu, Make Animation and
\* File > Export with crops in memory among them, finds its slot unset.
C40_EveryControlBound ==
    [][last'.op \notin {"dropped " \o control : control \in Controls}]_vars

\* Make Animation was pressed with crops in memory and an export folder
\* chosen: no handler ran, nothing was exported, no dialog was shown
C40_Witness ==
    /\ last.op = "dropped make_animation"
    /\ ip.cropped_images # << >>
    /\ ui.export_folder = "X"
    /\ disk = {}
    /\ ui.dialogs = << >>



(***************************************************************************)
(* Spec: the whole application, every handler enabled at every point.      *)
(***************************************************************************)
Cells == {<<30, 40>>}

Next ==
    \/ \E folder_path \in Folders : OnInputFolderChanged(folder_path, Size)
    \/ \E c \in Cells : OnLocateCell(c[1], c[2], Size)
    \/ OnToggleCrosshair
    \/ OnDrawRoi
    \/ OnCropAll
    \/ Pointer(RoiPoints \cup CropPoints, 0, MaxCrop)
    \/ \E delta \in {0 - 120, 120} : OnMouseWheel(delta, 100, 50)
    \/ OnZoomIn(Size)
    \/ OnZoomOut(Size)
    \/ OnPreviousImage(Size)
    \/ OnNextImage(Size)
    \/ OnResetView(Size)
    \/ OnTogglePan
    \/ OnResetEverything
    \/ OnDeleteRoi

Spec == Init /\ [][Next]_vars

============================================================================
